---------------------------- MODULE Spec2Model ----------------------------
(***************************************************************************)
(* A model of the normalization and serialization pipeline of the BKV      *)
(* matrix normalizer: the three readers (CSVProcessor, ExcelProcessor,     *)
(* JSONProcessor) and the exporter (JSONGenerator).                        *)
(*                                                                         *)
(* Conventions.                                                            *)
(*  - A Python str is a sequence of one-character strings, so that strip,  *)
(*    lower, suffix and concatenation are computed and not looked up.      *)
(*  - A Python value is a record [k |-> kind, v |-> payload]; None is      *)
(*    [k |-> "null"].  A float is the pair <<m, s>> standing for m/10^s.   *)
(*  - A Python dict with fixed keys (the processed_data of a reader, a     *)
(*    sheet) is a TLA+ record; a dict whose keys are data (a row, an       *)
(*    emitted JSON object) is a function from str to value.                *)
(*  - A call that raises is a result with ok = FALSE and the exception     *)
(*    class in err.                                                        *)
(***************************************************************************)
EXTENDS Integers, Sequences, FiniteSets, TLC

VARIABLES
    pc,      \* position of the conversion: "idle", "normalized", "failed", "done"
    src,     \* the input handed to the reader (source kind, filename, content)
    rs,      \* the reader's result: the RecordSet (processed_data) or an error
    rs2,     \* the result of running the same reader again on the same input
    req,     \* the output format requested from generate_file
    out,     \* the result of the last call: generate_file's path or error, a route's response
    files,   \* the output directory: path |-> content
    now,     \* the wall clock read by datetime.now()
    preview, \* the max_rows asked of get_preview for the same input, and its result
    jobs     \* the in-memory job registry: job_id |-> job

vars == <<pc, src, rs, rs2, req, out, files, now, preview, jobs>>

-----------------------------------------------------------------------------
(* Bounds of the model *)

MaxRows == 2
MaxSheets == 2
MaxItems == 2
MaxClock == 1
MaxNameLen == 4

-----------------------------------------------------------------------------
(* str literals of the source *)

Lit ==
    [ type |-> <<"t", "y", "p", "e">>,
      data |-> <<"d", "a", "t", "a">>,
      metadata |-> <<"m", "e", "t", "a", "d", "a", "t", "a">>,
      sheet_metadata |-> <<"s", "h", "e", "e", "t", "_", "m", "e", "t", "a", "d", "a", "t", "a">>,
      sheet_name |-> <<"s", "h", "e", "e", "t", "_", "n", "a", "m", "e">>,
      filename |-> <<"f", "i", "l", "e", "n", "a", "m", "e">>,
      file_type |-> <<"f", "i", "l", "e", "_", "t", "y", "p", "e">>,
      generated_at |-> <<"g", "e", "n", "e", "r", "a", "t", "e", "d", "_", "a", "t">>,
      format |-> <<"f", "o", "r", "m", "a", "t">>,
      json |-> <<"j", "s", "o", "n">>,
      jsonl |-> <<"j", "s", "o", "n", "l">>,
      csv |-> <<"c", "s", "v">>,
      tsv |-> <<"t", "s", "v">>,
      xlsx |-> <<"x", "l", "s", "x">>,
      row_count |-> <<"r", "o", "w", "_", "c", "o", "u", "n", "t">>,
      column_count |-> <<"c", "o", "l", "u", "m", "n", "_", "c", "o", "u", "n", "t">>,
      headers |-> <<"h", "e", "a", "d", "e", "r", "s">>,
      encoding |-> <<"e", "n", "c", "o", "d", "i", "n", "g">>,
      delimiter |-> <<"d", "e", "l", "i", "m", "i", "t", "e", "r">>,
      sheet_count |-> <<"s", "h", "e", "e", "t", "_", "c", "o", "u", "n", "t">>,
      total_rows |-> <<"t", "o", "t", "a", "l", "_", "r", "o", "w", "s">>,
      sheets |-> <<"s", "h", "e", "e", "t", "s">>,
      value |-> <<"v", "a", "l", "u", "e">>,
      records |-> <<"r", "e", "c", "o", "r", "d", "s">>,
      items |-> <<"i", "t", "e", "m", "s">>,
      rows |-> <<"r", "o", "w", "s">>,
      Unnamed_Column |-> <<"U", "n", "n", "a", "m", "e", "d", "_", "C", "o", "l", "u", "m", "n">>,
      Column_ |-> <<"C", "o", "l", "u", "m", "n", "_">>,
      True |-> <<"T", "r", "u", "e">>,
      False |-> <<"F", "a", "l", "s", "e">>,
      true |-> <<"t", "r", "u", "e">>,
      false |-> <<"f", "a", "l", "s", "e">>,
      yes |-> <<"y", "e", "s">>,
      no |-> <<"n", "o">>,
      one |-> <<"1">>,
      zero |-> <<"0">>,
      utf8 |-> <<"u", "t", "f", "-", "8">>,
      latin1 |-> <<"l", "a", "t", "i", "n", "-", "1">>,
      output |-> <<"o", "u", "t", "p", "u", "t">>,
      converted |-> <<"_", "c", "o", "n", "v", "e", "r", "t", "e", "d", ".">> ]

-----------------------------------------------------------------------------
(* Python str operations *)

UpperLetters == <<"A", "B", "C", "D", "E", "F", "G", "H", "I", "J", "K", "L", "M",
                  "N", "O", "P", "Q", "R", "S", "T", "U", "V", "W", "X", "Y", "Z">>
LowerLetters == <<"a", "b", "c", "d", "e", "f", "g", "h", "i", "j", "k", "l", "m",
                  "n", "o", "p", "q", "r", "s", "t", "u", "v", "w", "x", "y", "z">>
DigitChars == <<"0", "1", "2", "3", "4", "5", "6", "7", "8", "9">>

Range(f) == {f[i] : i \in DOMAIN f}

IsUpper(c) == c \in Range(UpperLetters)
IsAlpha(c) == c \in Range(UpperLetters) \cup Range(LowerLetters)
IsDigit(c) == c \in Range(DigitChars)
IsAlnum(c) == IsAlpha(c) \/ IsDigit(c)
IsSpace(c) == c \in {" ", "\t", "\n", "\r"}

\* str.lower(), one character
LowerChar(c) ==
    IF IsUpper(c)
    THEN LowerLetters[CHOOSE i \in DOMAIN UpperLetters : UpperLetters[i] = c]
    ELSE c

\* str.lower()
StrLower(s) == [i \in 1..Len(s) |-> LowerChar(s[i])]

\* str.upper() is used only in log messages and error texts

\* s[i:] and s[:j] of Python, 1-based here
Drop(s, n) == SubSeq(s, n + 1, Len(s))
Take(s, n) == SubSeq(s, 1, IF n < Len(s) THEN n ELSE Len(s))

\* str.strip(): surrounding whitespace removed
StrStrip(s) ==
    LET lead == IF \A i \in 1..Len(s) : IsSpace(s[i]) THEN Len(s)
                ELSE (CHOOSE i \in 1..Len(s) :
                        /\ ~IsSpace(s[i])
                        /\ \A j \in 1..(i - 1) : IsSpace(s[j])) - 1
        rest == Drop(s, lead)
        keep == IF rest = <<>> THEN 0
                ELSE CHOOSE i \in 1..Len(rest) :
                        /\ ~IsSpace(rest[i])
                        /\ \A j \in (i + 1)..Len(rest) : IsSpace(rest[j])
    IN  Take(rest, keep)

\* str.strip(ch): surrounding occurrences of one character removed
StrStripChar(s, ch) ==
    LET lead == IF \A i \in 1..Len(s) : s[i] = ch THEN Len(s)
                ELSE (CHOOSE i \in 1..Len(s) :
                        /\ s[i] # ch
                        /\ \A j \in 1..(i - 1) : s[j] = ch) - 1
        rest == Drop(s, lead)
        keep == IF rest = <<>> THEN 0
                ELSE CHOOSE i \in 1..Len(rest) :
                        /\ rest[i] # ch
                        /\ \A j \in (i + 1)..Len(rest) : rest[j] = ch
    IN  Take(rest, keep)

\* str.lstrip(ch): leading occurrences of one character removed
RECURSIVE StrLStripChar(_, _)
StrLStripChar(s, ch) ==
    IF s # <<>> /\ s[1] = ch THEN StrLStripChar(Tail(s), ch) ELSE s

\* str.replace(ch, ""): every occurrence of one character removed
StrRemove(s, ch) == SelectSeq(s, LAMBDA c : c # ch)

\* ch in s
StrContains(s, ch) == \E i \in 1..Len(s) : s[i] = ch

\* str.isdigit()
StrIsDigit(s) == s # <<>> /\ \A i \in 1..Len(s) : IsDigit(s[i])

\* the position of the last occurrence of ch in s, 0 when there is none
LastIndexOf(s, ch) ==
    IF StrContains(s, ch)
    THEN CHOOSE i \in 1..Len(s) : s[i] = ch /\ \A j \in (i + 1)..Len(s) : s[j] # ch
    ELSE 0

\* pathlib: Path(name).suffix of a name without directory part
PathSuffix(name) ==
    LET i == LastIndexOf(name, ".")
    IN  IF i <= 1 \/ i = Len(name) THEN <<>> ELSE Drop(name, i - 1)

\* pathlib: Path(name).stem of a name without directory part
PathStem(name) == Take(name, Len(name) - Len(PathSuffix(name)))

-----------------------------------------------------------------------------
(* Python numbers *)

RECURSIVE Pow10(_)
Pow10(n) == IF n = 0 THEN 1 ELSE 10 * Pow10(n - 1)

DigitValue(c) == (CHOOSE i \in DOMAIN DigitChars : DigitChars[i] = c) - 1

\* the value of a string of decimal digits
RECURSIVE DigitsValue(_)
DigitsValue(s) ==
    IF s = <<>> THEN 0
    ELSE 10 * DigitsValue(Take(s, Len(s) - 1)) + DigitValue(s[Len(s)])

\* str(n) of an int
RECURSIVE NatToStr(_)
NatToStr(n) ==
    IF n < 10 THEN <<DigitChars[n + 1]>>
    ELSE Append(NatToStr(n \div 10), DigitChars[(n % 10) + 1])

IntToStr(n) == IF n < 0 THEN <<"-">> \o NatToStr(0 - n) ELSE NatToStr(n)

\* a float m/10^s in lowest form: no trailing decimal zero is kept
RECURSIVE FloatNorm(_, _)
FloatNorm(m, s) ==
    IF s > 0 /\ m % 10 = 0 THEN FloatNorm(m \div 10, s - 1) ELSE <<m, s>>

\* float.is_integer() and int(float)
FloatIsInteger(f) == FloatNorm(f[1], f[2])[2] = 0
FloatToInt(f) == FloatNorm(f[1], f[2])[1]

\* the sign, and the rest, of a numeric literal
SignOf(s) == IF s # <<>> /\ s[1] = "-" THEN 0 - 1 ELSE 1
Unsigned(s) == IF s # <<>> /\ s[1] \in {"+", "-"} THEN Drop(s, 1) ELSE s

\* int(s) of Python accepts: an optional sign and one or more digits
IntLiteralOk(s) == StrIsDigit(Unsigned(s))
IntLiteralValue(s) == SignOf(s) * DigitsValue(Unsigned(s))

\* the mantissa of a float literal: digits with at most one point and at
\* least one digit
MantissaOk(u) ==
    LET d == StrRemove(u, ".")
    IN  /\ StrIsDigit(d)
        /\ Len(u) - Len(d) <= 1

\* the position of the exponent marker of a float literal, 0 without one
ExpIndex(u) ==
    IF \E i \in 1..Len(u) : u[i] \in {"e", "E"}
    THEN CHOOSE i \in 1..Len(u) : u[i] \in {"e", "E"} /\ \A j \in 1..(i - 1) : u[j] \notin {"e", "E"}
    ELSE 0

\* the words float() accepts beside decimal literals
FloatWords == { <<"i", "n", "f">>, <<"i", "n", "f", "i", "n", "i", "t", "y">>, <<"n", "a", "n">> }

\* float(s) of Python accepts: [sign] mantissa [e [sign] digits], or a
\* signed inf, infinity or nan in any letter case
FloatLiteralOk(s) ==
    LET u == Unsigned(s)
        e == ExpIndex(u)
    IN  \/ StrLower(u) \in FloatWords
        \/ e = 0 /\ MantissaOk(u)
        \/ e > 0 /\ MantissaOk(Take(u, e - 1)) /\ IntLiteralOk(Drop(u, e))

\* float(s) of a decimal literal, as m/10^s; an exponent shifts the point
FloatLiteralValue(s) ==
    LET u == Unsigned(s)
        e == ExpIndex(u)
        mant == IF e = 0 THEN u ELSE Take(u, e - 1)
        exp == IF e = 0 THEN 0 ELSE IntLiteralValue(Drop(u, e))
        p == LastIndexOf(mant, ".")
        frac == IF p = 0 THEN 0 ELSE Len(mant) - p
        m == SignOf(s) * DigitsValue(StrRemove(mant, "."))
    IN  IF exp >= frac THEN <<m * Pow10(exp - frac), 0>>
        ELSE FloatNorm(m, frac - exp)

-----------------------------------------------------------------------------
(* Python values *)

PyNone == [k |-> "null"]
PyBool(b) == [k |-> "bool", v |-> b]
PyInt(n) == [k |-> "int", v |-> n]
PyFloat(m, s) == [k |-> "float", v |-> <<m, s>>]
PyStr(s) == [k |-> "str", v |-> s]
PyList(l) == [k |-> "list", v |-> l]
\* an ordered dict, as the sequence of its <<key, value>> items
PyDict(items) == [k |-> "dict", v |-> items]
\* float('nan') and pandas.NA, the missing-value markers of pandas
NaN == [k |-> "nan"]
NA == [k |-> "na"]
\* the str that json.dumps(x, ensure_ascii=False) returns for a list or dict x:
\* the text is kept as the structure it encodes
JsonStr(x) == [k |-> "jsonstr", v |-> x]

\* the kinds of value the three output formats can hold
ScalarKinds == {"null", "bool", "int", "float", "str", "jsonstr"}

\* pandas.isna() of a scalar
IsNaScalar(x) == x.k \in {"null", "nan", "na"}

\* str(x) of the scalars whose text the model needs
StrOf(x) ==
    CASE x.k = "int" -> IntToStr(x.v)
      [] x.k = "npint" -> IntToStr(x.v)
      [] x.k = "bool" -> IF x.v THEN Lit.True ELSE Lit.False
      [] x.k = "npbool" -> IF x.v THEN Lit.True ELSE Lit.False
      [] x.k = "str" -> x.v
      [] OTHER -> x.v

-----------------------------------------------------------------------------
(* CSVProcessor: column names and cell values *)

\* re.sub(r"[\s_]+", "_", s): each run of whitespace and underscores becomes
\* one underscore
RECURSIVE CollapseRuns(_)
CollapseRuns(s) ==
    IF s = <<>> THEN <<>>
    ELSE IF IsSpace(s[1]) \/ s[1] = "_"
         THEN IF Len(s) > 1 /\ (IsSpace(s[2]) \/ s[2] = "_")
              THEN CollapseRuns(Tail(s))
              ELSE <<"_">> \o CollapseRuns(Tail(s))
         ELSE <<s[1]>> \o CollapseRuns(Tail(s))

\* a _clean_column_name that leaves the underscores at the ends
CleanColumnNameUntrimmed(column_name) ==
    LET stripped == StrStrip(column_name)
        replaced == [i \in 1..Len(stripped) |->
                        IF IsAlnum(stripped[i]) \/ stripped[i] \in {"_", "-", " "}
                        THEN stripped[i] ELSE "_"]
    IN  IF stripped = <<>> THEN Lit.Unnamed_Column
        ELSE CollapseRuns(replaced)

\* CSVProcessor._clean_column_name; the column labels read_csv returns are str
\* (it names an empty header cell "Unnamed: <n>" itself)
CleanColumnName(column_name) ==
    LET stripped == StrStrip(column_name)
        replaced == [i \in 1..Len(stripped) |->
                        IF IsAlnum(stripped[i]) \/ stripped[i] \in {"_", "-", " "}
                        THEN stripped[i] ELSE "_"]
        cleaned == StrStripChar(CollapseRuns(replaced), "_")
    IN  IF stripped = <<>> THEN Lit.Unnamed_Column
        ELSE IF cleaned = <<>> THEN Lit.Unnamed_Column
        ELSE cleaned

\* CSVProcessor._is_number
IsNumber(s) == FloatLiteralOk(s)

\* _process_cell_value with the boolean words, "1" and "0" among them, tested
\* before the numeric parse
CsvProcessCellValueBooleanFirst(value) ==
    CASE IsNaScalar(value) -> PyNone
      [] value.k = "timestamp" -> PyStr(value.v)
      [] value.k = "int" -> value
      [] value.k = "bool" -> value
      [] value.k = "float" ->
            IF FloatIsInteger(value.v) THEN PyInt(FloatToInt(value.v)) ELSE value
      [] value.k = "str" ->
            LET cleaned == StrStrip(value.v)
                lowered == StrLower(cleaned)
            IN  IF cleaned = <<>> THEN PyNone
                ELSE IF lowered \in {Lit.true, Lit.false, Lit.yes, Lit.no, Lit.one, Lit.zero}
                THEN PyBool(lowered \in {Lit.true, Lit.yes, Lit.one})
                ELSE IF IsNumber(cleaned) /\ StrContains(cleaned, ".")
                THEN LET f == FloatLiteralValue(cleaned)
                     IN  IF FloatIsInteger(f) THEN PyInt(FloatToInt(f))
                         ELSE PyFloat(f[1], f[2])
                ELSE IF IsNumber(cleaned) /\ IntLiteralOk(cleaned)
                THEN PyInt(IntLiteralValue(cleaned))
                ELSE PyStr(cleaned)
      [] OTHER -> PyStr(StrOf(value))

\* CSVProcessor._process_cell_value.  The value is what row[col] of
\* DataFrame.iterrows() holds: NaN, a Python int, float, bool or str of an
\* object row, or numpy's int64 / bool_ of a row of one dtype, which are
\* neither int nor bool for isinstance and reach the final str(value).
CsvProcessCellValue(value) ==
    CASE IsNaScalar(value) -> PyNone
      [] value.k = "timestamp" -> PyStr(value.v)
      [] value.k = "int" -> value
      [] value.k = "bool" -> value
      [] value.k = "float" ->
            IF FloatIsInteger(value.v) THEN PyInt(FloatToInt(value.v)) ELSE value
      [] value.k = "str" ->
            LET cleaned == StrStrip(value.v)
                lowered == StrLower(cleaned)
                asBool == IF lowered \in {Lit.true, Lit.false, Lit.yes, Lit.no}
                          THEN PyBool(lowered \in {Lit.true, Lit.yes})
                          ELSE PyStr(cleaned)
            IN  IF cleaned = <<>> THEN PyNone
                ELSE IF IsNumber(cleaned)
                THEN IF StrContains(cleaned, ".")
                     THEN LET f == FloatLiteralValue(cleaned)
                          IN  IF FloatIsInteger(f) THEN PyInt(FloatToInt(f))
                              ELSE PyFloat(f[1], f[2])
                     ELSE IF IntLiteralOk(cleaned) THEN PyInt(IntLiteralValue(cleaned))
                          ELSE asBool
                ELSE asBool
      [] OTHER -> PyStr(StrOf(value))

-----------------------------------------------------------------------------
(* ExcelProcessor: cell values *)

\* ExcelProcessor._process_cell_value.  The value is a cell of openpyxl's
\* iter_rows(values_only=True): None, datetime, int, float, bool or str.
ExcelProcessCellValue(cell_value) ==
    CASE cell_value.k = "null" -> PyNone
      [] cell_value.k = "datetime" -> PyStr(cell_value.v)
      [] cell_value.k = "int" -> cell_value
      [] cell_value.k = "bool" -> cell_value
      [] cell_value.k = "float" ->
            IF FloatIsInteger(cell_value.v) THEN PyInt(FloatToInt(cell_value.v))
            ELSE cell_value
      [] cell_value.k = "str" ->
            LET cleaned == StrStrip(cell_value.v)
                lowered == StrLower(cleaned)
                digits == StrRemove(StrRemove(StrRemove(cleaned, "."), "-"), "+")
                asBool == IF lowered \in {Lit.true, Lit.false, Lit.yes, Lit.no, Lit.one, Lit.zero}
                          THEN PyBool(lowered \in {Lit.true, Lit.yes, Lit.one})
                          ELSE PyStr(cleaned)
            IN  IF StrIsDigit(digits)
                THEN IF StrContains(cleaned, ".")
                     THEN IF FloatLiteralOk(cleaned)
                          THEN LET f == FloatLiteralValue(cleaned)
                               IN  IF FloatIsInteger(f) THEN PyInt(FloatToInt(f))
                                   ELSE PyFloat(f[1], f[2])
                          ELSE asBool
                     ELSE IF IntLiteralOk(cleaned) THEN PyInt(IntLiteralValue(cleaned))
                          ELSE asBool
                ELSE asBool
      [] OTHER -> PyStr(StrOf(cell_value))

-----------------------------------------------------------------------------
(* Python dicts, results and ordering *)

\* a call that returned value val, and a call that raised
Ok(val) == [ok |-> TRUE, val |-> val]
Raised(err, msg) == [ok |-> FALSE, err |-> err, msg |-> msg]

\* d.get(key, default) of a dict with fixed keys
Get(d, key, default) == IF key \in DOMAIN d THEN d[key] ELSE default

\* {**base, **over}: the items of over replace those of base
DictUpdate(base, over) ==
    [key \in (DOMAIN base) \cup (DOMAIN over) |->
        IF key \in DOMAIN over THEN over[key] ELSE base[key]]

\* the dict built by assigning d[keys[i]] = vals[i] for i = 1, 2, ...: a key
\* assigned twice keeps the last value
DictFromSeqs(keys, vals) ==
    [key \in Range(keys) |->
        vals[CHOOSE i \in DOMAIN keys :
                keys[i] = key /\ \A j \in DOMAIN keys : keys[j] = key => j <= i]]

\* the characters of the model in code point order
CodePoints == <<"\t", "\n", "\r", " ", "#", "+", "-", ".", ":">> \o DigitChars \o
              UpperLetters \o <<"_">> \o LowerLetters

Ord(c) == CHOOSE i \in DOMAIN CodePoints : CodePoints[i] = c

\* a < b for str
RECURSIVE StrLess(_, _)
StrLess(a, b) ==
    IF b = <<>> THEN FALSE
    ELSE IF a = <<>> THEN TRUE
    ELSE IF a[1] = b[1] THEN StrLess(Tail(a), Tail(b))
    ELSE Ord(a[1]) < Ord(b[1])

\* sorted(S) of a set of str
RECURSIVE SortedStrs(_)
SortedStrs(S) ==
    IF S = {} THEN <<>>
    ELSE LET least == CHOOSE a \in S : \A b \in S \ {a} : StrLess(a, b)
         IN  <<least>> \o SortedStrs(S \ {least})

\* sum of a sequence of numbers
RECURSIVE SumSeq(_)
SumSeq(s) == IF s = <<>> THEN 0 ELSE Head(s) + SumSeq(Tail(s))

\* datetime.now(timezone.utc).isoformat(): the text of clock reading t
IsoFormat(t) == <<"T">> \o NatToStr(t)

-----------------------------------------------------------------------------
(* CSVProcessor: encoding and delimiter detection *)

\* A bytes value is the sequence of its bytes (0..255); a decoded text is a
\* str, with one string standing for each character outside ASCII.

\* the character of a code point
Chr ==
    (9 :> "\t") @@ (10 :> "\n") @@ (44 :> ",") @@ (59 :> ";") @@ (97 :> "a") @@
    (98 :> "b") @@ (99 :> "c") @@ (49 :> "1") @@ (50 :> "2") @@ (51 :> "3") @@
    (52 :> "4") @@ (53 :> "5") @@ (54 :> "6") @@
    (124 :> "|") @@ (129 :> "U+0081") @@ (169 :> "U+00A9") @@ (195 :> "U+00C3") @@
    (233 :> "U+00E9") @@ (36969 :> "U+9069")

\* the codec Python looks up for an encoding name (names are normalised and
\* aliases resolved); "unknown" stands for LookupError
CodecOf(encoding) ==
    LET name == StrLower(encoding)
    IN  CASE name = Lit.utf8 -> "utf_8"
          [] name = <<"a", "s", "c", "i", "i">> -> "ascii"
          [] name \in {Lit.latin1, <<"i", "s", "o", "-", "8", "8", "5", "9", "-", "1">>} -> "latin_1"
          [] name \in {<<"c", "p", "1", "2", "5", "2">>,
                       <<"w", "i", "n", "d", "o", "w", "s", "-", "1", "2", "5", "2">>} -> "cp1252"
          [] OTHER -> "unknown"

\* bytes.decode("utf-8") and bytes.decode("utf-8", errors="ignore"): a byte
\* below 0x80 is its character, a lead byte takes one, two or three
\* continuation bytes (0x80..0xBF); a byte that cannot start a character, a
\* lead byte that lacks a continuation and a continuation byte without its
\* lead byte are errors, or are dropped when errors are ignored.  (The
\* narrower second-byte ranges of E0, ED, F0 and F4 are not modelled.)
Utf8Decode(content, ignore) ==
    LET cont(i) == i <= Len(content) /\ content[i] >= 128 /\ content[i] <= 191
        need(i) == IF content[i] < 128 THEN 0
                   ELSE IF content[i] >= 194 /\ content[i] <= 223 THEN 1
                   ELSE IF content[i] >= 224 /\ content[i] <= 239 THEN 2
                   ELSE IF content[i] >= 240 /\ content[i] <= 244 THEN 3
                   ELSE -1
        starts(i) == need(i) >= 0 /\ \A n \in 1..need(i) : cont(i + n)
        held(i) == \E n \in 1..3 : i - n >= 1 /\ need(i - n) >= n /\ starts(i - n)
        point(i) == CASE need(i) = 0 -> content[i]
                      [] need(i) = 1 -> (content[i] - 192) * 64 + (content[i + 1] - 128)
                      [] need(i) = 2 -> (content[i] - 224) * 4096
                                        + (content[i + 1] - 128) * 64 + (content[i + 2] - 128)
                      [] OTHER -> (content[i] - 240) * 262144 + (content[i + 1] - 128) * 4096
                                        + (content[i + 2] - 128) * 64 + (content[i + 3] - 128)
        leads == SelectSeq([i \in DOMAIN content |-> i], starts)
    IN  IF ignore \/ \A i \in DOMAIN content : starts(i) \/ held(i)
        THEN Ok([n \in DOMAIN leads |-> Chr[point(leads[n])]])
        ELSE Raised("UnicodeDecodeError", "invalid byte")

\* bytes.decode(encoding): LookupError for a name Python has no codec for,
\* UnicodeDecodeError for bytes the codec has no character for (latin-1 has
\* one for every byte, cp1252 for all but five, ascii for those below 0x80)
Decode(content, encoding) ==
    LET codec == CodecOf(encoding)
        undefined == CASE codec = "ascii" -> 128..255
                       [] codec = "cp1252" -> {129, 141, 143, 144, 157}
                       [] OTHER -> {}
    IN  CASE codec = "unknown" -> Raised("LookupError", "unknown encoding")
          [] codec = "utf_8" -> Utf8Decode(content, FALSE)
          [] OTHER ->
                IF \E i \in DOMAIN content : content[i] \in undefined
                THEN Raised("UnicodeDecodeError", "invalid byte")
                ELSE Ok([i \in DOMAIN content |-> Chr[content[i]]])

\* CSVProcessor._detect_encoding; detected is what chardet.detect returned, or
\* that it raised
DetectEncoding(file_content, detected) ==
    LET tried == <<Lit.utf8, Lit.latin1, <<"c", "p", "1", "2", "5", "2">>,
                   <<"i", "s", "o", "-", "8", "8", "5", "9", "-", "1">>>>
        decodes == {i \in DOMAIN tried : Decode(file_content, tried[i]).ok}
        low == detected.confidence[1] * 10 < 7 * Pow10(detected.confidence[2])
    IN  IF detected.raises THEN Lit.utf8
        ELSE IF detected.encoding.k = "null" \/ detected.encoding.v = <<>> \/ low
        THEN IF decodes = {} THEN Lit.utf8
             ELSE tried[CHOOSE i \in decodes : \A j \in decodes : i <= j]
        ELSE detected.encoding.v

\* a decode step without the fallback: the error of decode() propagates
DecodeContentStrict(file_content, encoding) == Decode(file_content, encoding)

\* the decode step of process_file: "decode with fallback"
DecodeContent(file_content, encoding) ==
    IF Decode(file_content, encoding).ok
    THEN Decode(file_content, encoding)
    ELSE Utf8Decode(file_content, TRUE)

\* text_content[:2048]
SampleSize == 2048

\* the candidates of the delimiter
Delimiters == <<",", ";", "\t", "|">>

\* what csv.Sniffer().sniff(sample, delimiters=",;\t|") does: it returns a
\* dialect whose delimiter is one of the given characters that occurs in the
\* sample, or raises csv.Error when it finds none; "Exception" stands for any
\* other error
SniffOutcomes(sample) ==
    { [raises |-> "csv.Error"], [raises |-> "Exception"] } \cup
    { [raises |-> "no", delimiter |-> c] : c \in Range(Delimiters) \cap Range(sample) }

\* FileValidator._detect_delimiter; its candidates are counted in the order
\* comma, tab, semicolon, pipe, and an error of sniff() other than csv.Error
\* is not caught here
ValidatorDetectDelimiter(text_content, sniffed) ==
    LET sample == Take(text_content, SampleSize)
        candidates == <<",", "\t", ";", "|">>
        count(i) == Cardinality({n \in DOMAIN sample : sample[n] = candidates[i]})
    IN  CASE sniffed.raises = "no" -> Ok(sniffed.delimiter)
          [] sniffed.raises = "Exception" -> Raised("Exception", "sniff failed")
          [] OTHER ->
                Ok(candidates[CHOOSE i \in DOMAIN candidates :
                    /\ \A j \in DOMAIN candidates : count(j) <= count(i)
                    /\ \A j \in DOMAIN candidates : count(j) = count(i) => i <= j])

\* a fallback that takes the last of the candidates with the highest count
DetectDelimiterLastMax(text_content, sniffed) ==
    LET sample == Take(text_content, SampleSize)
        count(i) == Cardinality({n \in DOMAIN sample : sample[n] = Delimiters[i]})
    IN  CASE sniffed.raises = "no" -> sniffed.delimiter
          [] sniffed.raises = "Exception" -> ","
          [] OTHER ->
                Delimiters[CHOOSE i \in DOMAIN Delimiters :
                    /\ \A j \in DOMAIN Delimiters : count(j) <= count(i)
                    /\ \A j \in DOMAIN Delimiters : count(j) = count(i) => j <= i]

\* CSVProcessor._detect_delimiter; sniffed is what sniff() did.  max() returns
\* the first of the candidates with the highest count.
DetectDelimiter(text_content, sniffed) ==
    LET sample == Take(text_content, SampleSize)
        count(i) == Cardinality({n \in DOMAIN sample : sample[n] = Delimiters[i]})
    IN  CASE sniffed.raises = "no" -> sniffed.delimiter
          [] sniffed.raises = "Exception" -> ","
          [] OTHER ->
                Delimiters[CHOOSE i \in DOMAIN Delimiters :
                    /\ \A j \in DOMAIN Delimiters : count(j) <= count(i)
                    /\ \A j \in DOMAIN Delimiters : count(j) = count(i) => i <= j]

-----------------------------------------------------------------------------
(* CSVProcessor.process_file *)

\* file_ext of process_file: the lower-cased suffix without its dot, csv
\* unless it is csv or tsv
CsvFileExt(filename) ==
    LET ext == StrLStripChar(StrLower(PathSuffix(filename)), ".")
        file_ext == IF ext = <<>> THEN Lit.csv ELSE ext
    IN  IF file_ext \in {Lit.csv, Lit.tsv} THEN file_ext ELSE Lit.csv

\* the value row[col] holds in DataFrame.iterrows(): a row of columns of one
\* dtype keeps numpy scalars, int64 and float64 columns together give floats,
\* any other mix gives Python objects
IterRowValue(dtypes, j, cell) ==
    LET kinds == Range(dtypes)
    IN  IF cell.k = "int"
        THEN IF kinds = {"int64"} THEN [k |-> "npint", v |-> cell.v]
             ELSE IF kinds \subseteq {"int64", "float64"} THEN PyFloat(cell.v, 0)
             ELSE cell
        ELSE IF cell.k = "bool"
        THEN IF kinds = {"bool"} THEN [k |-> "npbool", v |-> cell.v] ELSE cell
        ELSE cell

\* df.columns after "Clean column names"
CsvColumns(frame) ==
    [i \in DOMAIN frame.columns |-> CleanColumnName(frame.columns[i])]

\* a row_data that leaves out the columns the row has no value for
CsvRowDataSkippingNulls(columns, dtypes, row) ==
    [col \in {columns[j] : j \in {i \in DOMAIN columns : ~IsNaScalar(row[i])}} |->
        CsvProcessCellValue(IterRowValue(dtypes,
            CHOOSE j \in DOMAIN columns : columns[j] = col /\ ~IsNaScalar(row[j]),
            row[CHOOSE j \in DOMAIN columns : columns[j] = col /\ ~IsNaScalar(row[j])]))]

\* row_data of one row of the frame
CsvRowData(columns, dtypes, row) ==
    DictFromSeqs(columns,
        [j \in DOMAIN columns |->
            CsvProcessCellValue(IterRowValue(dtypes, j, row[j]))])

\* processed_data: one row_data per row of df.iterrows()
CsvData(frame, columns) ==
    [r \in DOMAIN frame.rows |-> CsvRowData(columns, frame.dtypes, frame.rows[r])]

\* the end of process_file.  row[col] of a label that two columns hold is a
\* Series, and pd.isna(Series) has no truth value: with such labels the first
\* row raises ValueError, which comes out as FileProcessingError
CsvResult(input, filename, clock, columns, processed_data) ==
    IF /\ \E i, j \in DOMAIN columns : i # j /\ columns[i] = columns[j]
       /\ input.frame.rows # <<>>
    THEN Raised("FileProcessingError", "Delimited text processing failed")
    ELSE Ok([filename |-> filename,
             file_type |-> CsvFileExt(filename),
             data |-> processed_data,
             headers |-> columns,
             row_count |-> Len(processed_data),
             column_count |-> Len(columns),
             encoding |-> input.encoding,
             delimiter |-> input.delimiter,
             processed_at |-> IsoFormat(clock)])

CsvFromFrame(input, filename, clock, columns) ==
    CsvResult(input, filename, clock, columns, CsvData(input.frame, columns))

\* CSVProcessor.process_file after decoding and sniffing: frame is what
\* pd.read_csv returned (or that it raised), encoding and delimiter are the
\* results of _detect_encoding and _detect_delimiter
CsvProcessFile(input, filename, clock) ==
    IF ~input.frame.ok
    THEN Raised("FileProcessingError", "Delimited text processing failed")
    ELSE CsvFromFrame(input, filename, clock, CsvColumns(input.frame))

-----------------------------------------------------------------------------
(* ExcelProcessor.process_file *)

\* an Optional result: None, or a value
Nothing == [some |-> FALSE]
Some(val) == [some |-> TRUE, val |-> val]

\* "Remove completely empty rows"
NonEmptyRows(rows) ==
    SelectSeq(rows, LAMBDA row : \E i \in DOMAIN row : row[i] # PyNone)

\* "First row as headers"
SheetHeaders(first) ==
    [i \in DOMAIN first |->
        IF first[i] # PyNone THEN StrOf(first[i]) ELSE Lit.Column_ \o NatToStr(i)]

\* row_data of one data row: a header held by two columns keeps the last cell
SheetRowData(headers, row) ==
    DictFromSeqs(headers, [i \in DOMAIN headers |-> ExcelProcessCellValue(row[i])])

\* a sheet that keeps every row_data, also one without a value
SheetDataUnfiltered(headers, rows) ==
    [r \in DOMAIN rows |-> SheetRowData(headers, rows[r])]

\* "Only add row if it has at least one non-null value"
SheetData(headers, rows) ==
    SelectSeq([r \in DOMAIN rows |-> SheetRowData(headers, rows[r])],
              LAMBDA row_data : \E h \in DOMAIN row_data : row_data[h] # PyNone)

\* the end of _process_sheet
SheetResult(sheet_name, headers, data) ==
    IF data = <<>> THEN Nothing
    ELSE Some([headers |-> headers,
               data |-> data,
               row_count |-> Len(data),
               column_count |-> Len(headers),
               sheet_name |-> sheet_name])

SheetFromHeaders(sheet_name, headers, rows) ==
    SheetResult(sheet_name, headers, SheetData(headers, rows))

SheetFromRows(sheet_name, rows) ==
    IF rows = <<>> THEN Nothing
    ELSE SheetFromHeaders(sheet_name, SheetHeaders(rows[1]), Tail(rows))

\* ExcelProcessor._process_sheet.  A worksheet is its name, the rows that
\* iter_rows(values_only=True) yields (all of one width), and whether reading
\* it raises; the except clause turns that into None.
ProcessSheet(worksheet) ==
    IF worksheet.raises THEN Nothing
    ELSE IF worksheet.rows = <<>> THEN Nothing
    ELSE SheetFromRows(worksheet.name, NonEmptyRows(worksheet.rows))

\* "if sheet_data: processed_data[sheet_name] = sheet_data"
SheetItem(sheet_name, sheet_data) ==
    IF sheet_data.some THEN << <<sheet_name, sheet_data.val>> >> ELSE <<>>

\* a loop that ends at the first sheet that cannot be processed
RECURSIVE ProcessSheetsUntilFailure(_)
ProcessSheetsUntilFailure(worksheets) ==
    IF worksheets = <<>> THEN <<>>
    ELSE IF Head(worksheets).raises THEN <<>>
    ELSE SheetItem(Head(worksheets).name, ProcessSheet(Head(worksheets))) \o
         ProcessSheetsUntilFailure(Tail(worksheets))

\* the loop of process_file over workbook.sheetnames: processed_data, an
\* ordered dict, as the sequence of its <<sheet_name, sheet_data>> items
RECURSIVE ProcessSheets(_)
ProcessSheets(worksheets) ==
    IF worksheets = <<>> THEN <<>>
    ELSE SheetItem(Head(worksheets).name, ProcessSheet(Head(worksheets))) \o
         ProcessSheets(Tail(worksheets))

\* an end of process_file without the "if not processed_data" test
ExcelResultUnchecked(filename, clock, processed_data) ==
    Ok([filename |-> filename,
        file_type |-> Lit.xlsx,
        sheets |-> processed_data,
        sheet_count |-> Len(processed_data),
        processed_at |-> IsoFormat(clock),
        total_rows |-> SumSeq([i \in DOMAIN processed_data |->
                                 Len(processed_data[i][2].data)])])

\* the end of process_file
ExcelResult(filename, clock, processed_data) ==
    IF processed_data = <<>>
    THEN Raised("FileProcessingError",
                "Excel processing failed: No valid data found in Excel file")
    ELSE Ok([filename |-> filename,
             file_type |-> Lit.xlsx,
             sheets |-> processed_data,
             sheet_count |-> Len(processed_data),
             processed_at |-> IsoFormat(clock),
             total_rows |-> SumSeq([i \in DOMAIN processed_data |->
                                      Len(processed_data[i][2].data)])])

\* ExcelProcessor.process_file: workbook is what openpyxl.load_workbook
\* returned (or that it raised)
ExcelProcessFile(workbook, filename, clock) ==
    IF ~workbook.ok
    THEN Raised("FileProcessingError", "Excel processing failed")
    ELSE ExcelResult(filename, clock, ProcessSheets(workbook.sheets))

\* "Preview max 3 sheets"
PreviewSheetLimit == 3

\* the body of get_preview's loop for one worksheet: the headers come from
\* the first row as it is, and every one of the next max_rows rows is shown
PreviewSheet(worksheet, max_rows) ==
    IF worksheet.raises THEN Nothing
    ELSE IF worksheet.rows = <<>> THEN Nothing
    ELSE LET headers == SheetHeaders(worksheet.rows[1])
             shown == Take(Tail(worksheet.rows), max_rows)
             preview_rows == [r \in DOMAIN shown |-> SheetRowData(headers, shown[r])]
         IN  Some([headers |-> headers,
                   preview_data |-> preview_rows,
                   total_rows |-> Len(worksheet.rows) - 1,
                   preview_rows |-> Len(preview_rows)])

\* the loop of get_preview over sheet_names[:3]: preview_data as the sequence
\* of its <<sheet_name, sheet preview>> items
RECURSIVE PreviewSheets(_, _)
PreviewSheets(worksheets, max_rows) ==
    IF worksheets = <<>> THEN <<>>
    ELSE SheetItem(Head(worksheets).name, PreviewSheet(Head(worksheets), max_rows)) \o
         PreviewSheets(Tail(worksheets), max_rows)

\* ExcelProcessor.get_preview
ExcelGetPreview(workbook, filename, max_rows) ==
    IF ~workbook.ok
    THEN Raised("FileProcessingError", "Preview generation failed")
    ELSE LET preview_data == PreviewSheets(Take(workbook.sheets, PreviewSheetLimit),
                                           max_rows)
         IN  Ok([filename |-> filename,
                 file_type |-> Lit.xlsx,
                 sheets |-> preview_data,
                 sheet_count |-> Len(preview_data)])

-----------------------------------------------------------------------------
(* JSONProcessor.process_file *)

\* A parsed JSON document (json.loads): None, bool, int, float, str, a list
\* PyList(<<...>>), or an object JsonObject(f) with f a function from str keys
\* to documents.
JsonObject(f) == [k |-> "dict", v |-> f]

\* the dict with the items of a set of <<key, value>> pairs with distinct keys
PairsToDict(P) == [key \in {p[1] : p \in P} |-> (CHOOSE p \in P : p[1] = key)[2]]

\* pandas _normalise_json: the <<dotted key, value>> pairs of the leaves of a
\* nested dict; an empty nested dict leaves nothing
RECURSIVE NormaliseJson(_, _)
NormaliseJson(d, key_string) ==
    UNION { LET new_key == IF key_string = <<>> THEN key
                           ELSE key_string \o <<".">> \o key
            IN  IF d[key].k = "dict" THEN NormaliseJson(d[key].v, new_key)
                ELSE {<<new_key, d[key]>>}
          : key \in DOMAIN d }

\* the flattened records of a list of dicts
FlatRecords(payload) ==
    [i \in DOMAIN payload |-> PairsToDict(NormaliseJson(payload[i].v, <<>>))]

\* the DataFrame of flat records and back: every record gets every column,
\* pd.NA (or NaN) where it had no value; a column of numbers with a float or
\* a gap in it is float64, so its ints come back as floats
FillColumns(flat) ==
    LET present(c) == {flat[i][c] : i \in {j \in DOMAIN flat : c \in DOMAIN flat[j]}}
                        \ {PyNone}
        gap(c) == \E i \in DOMAIN flat : c \notin DOMAIN flat[i] \/ flat[i][c] = PyNone
        float64(c) == /\ present(c) # {}
                      /\ \A x \in present(c) : x.k \in {"int", "float"}
                      /\ (gap(c) \/ \E x \in present(c) : x.k = "float")
        cell(i, c) == IF c \notin DOMAIN flat[i] THEN NA
                      ELSE IF flat[i][c] = PyNone THEN NA
                      ELSE IF flat[i][c].k = "int" /\ float64(c)
                      THEN PyFloat(flat[i][c].v, 0)
                      ELSE flat[i][c]
    IN  [i \in DOMAIN flat |->
            [c \in UNION {DOMAIN flat[j] : j \in DOMAIN flat} |-> cell(i, c)]]

\* pd.json_normalize(payload, sep=".").fillna(pd.NA).to_dict("records") of a
\* list of dicts
JsonNormalize(payload) == FillColumns(FlatRecords(payload))

\* the keys _normalize_payload looks a list of records up under, in its order
RecordKeys == <<Lit.data, Lit.records, Lit.items, Lit.rows>>

\* a test that takes a record key whatever it holds
HoldsKey(payload, i) == RecordKeys[i] \in DOMAIN payload.v

\* whether the i-th record key of a dict holds a list
HoldsList(payload, i) ==
    /\ RecordKeys[i] \in DOMAIN payload.v
    /\ payload.v[RecordKeys[i]].k = "list"

\* the rest of _normalize_payload, for a payload that is no dict or was found
\* under a record key
NormalizeInner(inner) ==
    IF inner.k = "list"
    THEN IF inner.v = <<>> THEN <<>>
         ELSE IF \A i \in DOMAIN inner.v : inner.v[i].k = "dict"
         THEN JsonNormalize(inner.v)
         ELSE [i \in DOMAIN inner.v |-> (Lit.value :> inner.v[i])]
    ELSE <<(Lit.value :> inner)>>

\* JSONProcessor._normalize_payload: the list of record dicts of a document
NormalizePayload(payload) ==
    IF payload.k = "dict"
    THEN IF \E i \in DOMAIN RecordKeys : HoldsList(payload, i)
         THEN NormalizeInner(
                payload.v[RecordKeys[CHOOSE i \in DOMAIN RecordKeys :
                    HoldsList(payload, i) /\ \A j \in 1..(i - 1) : ~HoldsList(payload, j)]])
         ELSE <<payload.v>>
    ELSE NormalizeInner(payload)

\* JSONProcessor._process_value.  pd.isna of a list is an array, whose truth
\* value is that of its only element, is an error (ValueError, which the
\* except TypeError does not catch) for two or more elements, and for none is
\* False or an error with the numpy of the build (empty_raises).
ProcessValue(value, empty_raises) ==
    CASE IsNaScalar(value) -> Ok(PyNone)
      [] value.k = "list" ->
            IF Len(value.v) >= 2 THEN Raised("ValueError", "truth value of an array")
            ELSE IF Len(value.v) = 0
            THEN IF empty_raises THEN Raised("ValueError", "truth value of an array")
                 ELSE Ok(JsonStr(value))
            ELSE IF IsNaScalar(value.v[1]) THEN Ok(PyNone)
            ELSE Ok(JsonStr(value))
      [] value.k = "dict" -> Ok(JsonStr(value))
      [] OTHER -> Ok(value)

\* a _sanitize_record that leaves out the headers the record has no value for
SanitizeRecordSkippingNulls(record, headers, empty_raises) ==
    [header \in {h \in Range(headers) : ~IsNaScalar(Get(record, h, PyNone))} |->
        ProcessValue(Get(record, header, PyNone), empty_raises)]

\* JSONProcessor._sanitize_record, as the dict of the results of _process_value
SanitizeRecord(record, headers, empty_raises) ==
    [header \in Range(headers) |->
        ProcessValue(Get(record, header, PyNone), empty_raises)]

\* "headers = sorted({key for record in records for key in record.keys()})"
JsonHeaders(records) ==
    SortedStrs(UNION {DOMAIN records[i] : i \in DOMAIN records})

\* the end of process_file; a _process_value that raised comes out as
\* FileProcessingError
JsonResult(input, filename, clock, headers, sanitized) ==
    IF \E i \in DOMAIN sanitized : \E h \in DOMAIN sanitized[i] : ~sanitized[i][h].ok
    THEN Raised("FileProcessingError", "JSON processing failed")
    ELSE Ok([filename |-> filename,
             file_type |-> Lit.json,
             data |-> [i \in DOMAIN sanitized |->
                         [h \in DOMAIN sanitized[i] |-> sanitized[i][h].val]],
             headers |-> headers,
             row_count |-> Len(sanitized),
             column_count |-> Len(headers),
             encoding |-> input.encoding,
             processed_at |-> IsoFormat(clock)])

JsonFromHeaders(input, filename, clock, records, headers) ==
    JsonResult(input, filename, clock, headers,
               [i \in DOMAIN records |->
                    SanitizeRecord(records[i], headers, input.empty_raises)])

JsonFromRecords(input, filename, clock, records) ==
    JsonFromHeaders(input, filename, clock, records, JsonHeaders(records))

\* JSONProcessor.process_file after decoding: parsed is what json.loads
\* returned (or that it raised), encoding the result of _detect_encoding
JsonProcessFile(input, filename, clock) ==
    IF ~input.parsed.ok
    THEN Raised("FileProcessingError", "JSON processing failed")
    ELSE JsonFromRecords(input, filename, clock, NormalizePayload(input.parsed.val))

-----------------------------------------------------------------------------
(* JSONGenerator: the output text *)

\* An emitted JSON object is JsonObj(f), f a function from str keys to values.
\* An output text is a sequence of tokens: the text json.dumps returns for one
\* object (on one line without indent, over several lines with it), a line
\* feed, or one row written by csv.DictWriter with its line terminator.
JsonObj(f) == [k |-> "obj", v |-> f]
JsonDumps(obj, indent) == [tok |-> "json", indent |-> indent, v |-> obj]
LineFeed == [tok |-> "lf"]
CsvRow(fields) == [tok |-> "row", v |-> fields, terminator |-> "\r\n"]

\* a join that ends every line with a line feed instead of separating them
RECURSIVE JoinLinesTerminated(_)
JoinLinesTerminated(output_lines) ==
    IF output_lines = <<>> THEN <<>>
    ELSE <<output_lines[1], LineFeed>> \o JoinLinesTerminated(Tail(output_lines))

\* "\n".join(output_lines)
RECURSIVE JoinLines(_)
JoinLines(output_lines) ==
    IF output_lines = <<>> THEN <<>>
    ELSE IF Len(output_lines) = 1 THEN <<output_lines[1]>>
    ELSE <<output_lines[1], LineFeed>> \o JoinLines(Tail(output_lines))

\* processed_data.get(key) of a str, a count and a list of str, as JSON values
GetStrValue(d, key) == IF key \in DOMAIN d THEN PyStr(d[key]) ELSE PyNone
GetCountValue(d, key) == IF key \in DOMAIN d THEN PyInt(d[key]) ELSE PyInt(0)
GetHeadersValue(d) ==
    IF "headers" \in DOMAIN d
    THEN PyList([i \in DOMAIN d.headers |-> PyStr(d.headers[i])])
    ELSE PyList(<<>>)

\* the lines _generate_jsonl_format emits for one sheet: its sheet_metadata
\* line, then one line per row
SheetLines(sheet_name, sheet_data) ==
    LET sheet_metadata ==
            (Lit.type :> PyStr(Lit.sheet_metadata)) @@
            (Lit.sheet_name :> PyStr(sheet_name)) @@
            (Lit.row_count :> GetCountValue(sheet_data, "row_count")) @@
            (Lit.column_count :> GetCountValue(sheet_data, "column_count")) @@
            (Lit.headers :> GetHeadersValue(sheet_data))
        rows == Get(sheet_data, "data", <<>>)
        row_with_meta(row) ==
            DictUpdate((Lit.type :> PyStr(Lit.data)) @@ (Lit.sheet_name :> PyStr(sheet_name)),
                       row)
    IN  <<JsonDumps(JsonObj(sheet_metadata), 0)>> \o
        [i \in DOMAIN rows |-> JsonDumps(JsonObj(row_with_meta(rows[i])), 0)]

\* the lines of the sheets with all the sheet_metadata lines in front of all
\* the rows
RECURSIVE SheetRowLines(_)
SheetRowLines(sheets_data) ==
    IF sheets_data = <<>> THEN <<>>
    ELSE Tail(SheetLines(Head(sheets_data)[1], Head(sheets_data)[2])) \o
         SheetRowLines(Tail(sheets_data))

AllSheetLinesMetadataFirst(sheets_data) ==
    [i \in DOMAIN sheets_data |-> SheetLines(sheets_data[i][1], sheets_data[i][2])[1]] \o
    SheetRowLines(sheets_data)

RECURSIVE AllSheetLines(_)
AllSheetLines(sheets_data) ==
    IF sheets_data = <<>> THEN <<>>
    ELSE SheetLines(Head(sheets_data)[1], Head(sheets_data)[2]) \o
         AllSheetLines(Tail(sheets_data))

\* JSONGenerator._generate_jsonl_format
GenerateJsonlFormat(processed_data, clock) ==
    LET file_type == Get(processed_data, "file_type", <<>>)
        metadata ==
            (Lit.type :> PyStr(Lit.metadata)) @@
            (Lit.filename :> GetStrValue(processed_data, "filename")) @@
            (Lit.file_type :> GetStrValue(processed_data, "file_type")) @@
            (Lit.generated_at :> PyStr(IsoFormat(clock))) @@
            (Lit.format :> PyStr(Lit.jsonl))
        xlsx_metadata ==
            metadata @@
            (Lit.sheet_count :> GetCountValue(processed_data, "sheet_count")) @@
            (Lit.total_rows :> GetCountValue(processed_data, "total_rows"))
        csv_metadata ==
            metadata @@
            (Lit.row_count :> GetCountValue(processed_data, "row_count")) @@
            (Lit.column_count :> GetCountValue(processed_data, "column_count")) @@
            (Lit.headers :> GetHeadersValue(processed_data)) @@
            (Lit.encoding :> GetStrValue(processed_data, "encoding")) @@
            (Lit.delimiter :> GetStrValue(processed_data, "delimiter"))
        rows == Get(processed_data, "data", <<>>)
        row_with_meta(row) == DictUpdate((Lit.type :> PyStr(Lit.data)), row)
        output_lines ==
            IF file_type = Lit.xlsx
            THEN <<JsonDumps(JsonObj(xlsx_metadata), 0)>> \o
                 AllSheetLines(Get(processed_data, "sheets", <<>>))
            ELSE IF file_type \in {Lit.csv, Lit.tsv}
            THEN <<JsonDumps(JsonObj(csv_metadata), 0)>> \o
                 [i \in DOMAIN rows |-> JsonDumps(JsonObj(row_with_meta(rows[i])), 0)]
            ELSE <<>>
    IN  Ok(JoinLines(output_lines))

\* JSONGenerator._generate_json_format
GenerateJsonFormat(processed_data, clock) ==
    LET file_type == Get(processed_data, "file_type", <<>>)
        metadata ==
            (Lit.filename :> GetStrValue(processed_data, "filename")) @@
            (Lit.file_type :> GetStrValue(processed_data, "file_type")) @@
            (Lit.generated_at :> PyStr(IsoFormat(clock))) @@
            (Lit.format :> PyStr(Lit.json))
        xlsx_metadata ==
            metadata @@
            (Lit.sheet_count :> GetCountValue(processed_data, "sheet_count")) @@
            (Lit.total_rows :> GetCountValue(processed_data, "total_rows"))
        csv_metadata ==
            metadata @@
            (Lit.row_count :> GetCountValue(processed_data, "row_count")) @@
            (Lit.column_count :> GetCountValue(processed_data, "column_count")) @@
            (Lit.headers :> GetHeadersValue(processed_data)) @@
            (Lit.encoding :> GetStrValue(processed_data, "encoding")) @@
            (Lit.delimiter :> GetStrValue(processed_data, "delimiter"))
        sheets_data == Get(processed_data, "sheets", <<>>)
        sheet_entry(sheet_name, sheet_data) ==
            JsonObj((Lit.metadata :> JsonObj(
                        (Lit.sheet_name :> PyStr(sheet_name)) @@
                        (Lit.row_count :> GetCountValue(sheet_data, "row_count")) @@
                        (Lit.column_count :> GetCountValue(sheet_data, "column_count")) @@
                        (Lit.headers :> GetHeadersValue(sheet_data)))) @@
                    (Lit.data :> PyList([i \in DOMAIN Get(sheet_data, "data", <<>>) |->
                                          JsonObj(sheet_data.data[i])])))
        sheets ==
            DictFromSeqs([i \in DOMAIN sheets_data |-> sheets_data[i][1]],
                         [i \in DOMAIN sheets_data |->
                            sheet_entry(sheets_data[i][1], sheets_data[i][2])])
        rows == Get(processed_data, "data", <<>>)
        output ==
            IF file_type = Lit.xlsx
            THEN (Lit.metadata :> JsonObj(xlsx_metadata)) @@ (Lit.sheets :> JsonObj(sheets))
            ELSE IF file_type \in {Lit.csv, Lit.tsv}
            THEN (Lit.metadata :> JsonObj(csv_metadata)) @@
                 (Lit.data :> PyList([i \in DOMAIN rows |-> JsonObj(rows[i])]))
            ELSE (Lit.metadata :> JsonObj(metadata))
    IN  Ok(<<JsonDumps(JsonObj(output), 2)>>)

\* JSONGenerator._format_csv_value; a bool or number is handed to the csv
\* writer as it is
FormatCsvValue(value) ==
    CASE value.k = "null" -> PyStr(<<>>)
      [] value.k \in {"list", "dict"} -> JsonStr(value)
      [] OTHER -> value

\* a CSV export that flattens a workbook to its first sheet instead of
\* rejecting it
GenerateCsvFirstSheet(processed_data) ==
    LET sheets_data == Get(processed_data, "sheets", <<>>)
        records == IF "data" \in DOMAIN processed_data THEN processed_data.data
                   ELSE IF sheets_data # <<>> THEN sheets_data[1][2].data
                   ELSE <<>>
        keyed == SortedStrs(UNION {DOMAIN records[i] : i \in DOMAIN records})
        headers == IF keyed # <<>> THEN keyed ELSE <<Lit.value>>
    IN  Ok(<<CsvRow([i \in DOMAIN headers |-> PyStr(headers[i])])>> \o
           [r \in DOMAIN records |->
              CsvRow([i \in DOMAIN headers |-> Get(records[r], headers[i], PyNone)])])

\* a CSV export that writes a column for every key of the records, whatever
\* the header list
GenerateCsvFormatAllKeys(processed_data) ==
    IF "data" \notin DOMAIN processed_data /\ Get(processed_data, "sheets", <<>>) # <<>>
    THEN Raised("ConversionError", "CSV output is not supported for multi-sheet Excel files")
    ELSE
    LET records == Get(processed_data, "data", <<>>)
        keyed == SortedStrs(UNION {DOMAIN records[i] : i \in DOMAIN records})
        headers == IF keyed # <<>> THEN keyed ELSE <<Lit.value>>
        row(record) == [i \in DOMAIN headers |->
                          FormatCsvValue(Get(record, headers[i], PyNone))]
    IN  Ok(<<CsvRow([i \in DOMAIN headers |-> PyStr(headers[i])])>> \o
           [i \in DOMAIN records |-> CsvRow(row(records[i]))])

\* JSONGenerator._generate_csv_format
GenerateCsvFormat(processed_data) ==
    IF "data" \notin DOMAIN processed_data /\ Get(processed_data, "sheets", <<>>) # <<>>
    THEN Raised("ConversionError", "CSV output is not supported for multi-sheet Excel files")
    ELSE
    LET records == Get(processed_data, "data", <<>>)
        given == Get(processed_data, "headers", <<>>)
        keyed == IF given # <<>> THEN given
                 ELSE SortedStrs(UNION {DOMAIN records[i] : i \in DOMAIN records})
        headers == IF keyed # <<>> THEN keyed ELSE <<Lit.value>>
        row(record) == [i \in DOMAIN headers |->
                          FormatCsvValue(Get(record, headers[i], PyNone))]
    IN  Ok(<<CsvRow([i \in DOMAIN headers |-> PyStr(headers[i])])>> \o
           [i \in DOMAIN records |-> CsvRow(row(records[i]))])

\* the output formats generate_output knows
KnownFormats == {Lit.json, Lit.jsonl, Lit.csv}

\* the except clause of generate_output: whatever is raised inside comes out
\* as a ConversionError; its message wraps the message of the cause, and the
\* model keeps the cause's
AsConversionError(res) ==
    IF res.ok THEN res ELSE Raised("ConversionError", res.msg)

\* the dispatch of generate_output on output_format.lower()
GenerateAs(processed_data, fmt, clock) ==
    IF fmt = Lit.json THEN GenerateJsonFormat(processed_data, clock)
    ELSE IF fmt = Lit.jsonl THEN GenerateJsonlFormat(processed_data, clock)
    ELSE IF fmt = Lit.csv THEN GenerateCsvFormat(processed_data)
    ELSE Raised("ConversionError", "Unsupported output format")

\* JSONGenerator.generate_output
GenerateOutput(processed_data, output_format, clock) ==
    AsConversionError(GenerateAs(processed_data, StrLower(output_format), clock))

\* the path generate_file writes to when it is given none
OutputPath(processed_data, output_format) ==
    LET filename == Get(processed_data, "filename", Lit.output)
    IN  PathStem(filename) \o Lit.converted \o StrLower(output_format)

-----------------------------------------------------------------------------
(* The inputs of the model *)

\* sequences over S of length lo..hi
SeqsOf(S, lo, hi) == UNION {[1..n -> S] : n \in lo..hi}

\* the str values of the inputs: two names and a cell with a blank in front
In == [a |-> <<"a">>, b |-> <<"b">>, x |-> <<" ", "x">>]

\* uploads of delimited text: the file name and what the sniffers found
CsvUploads ==
    { [filename |-> <<"a", ".", "c", "s", "v">>, encoding |-> Lit.utf8, delimiter |-> <<",">>],
      [filename |-> <<"b", ".", "T", "S", "V">>, encoding |-> Lit.latin1, delimiter |-> <<"\t">>],
      [filename |-> <<"a", ".", "t", "x", "t">>, encoding |-> Lit.utf8, delimiter |-> <<";">>] }

\* the column labels of a frame, as read_csv returns them (it makes them
\* distinct); the last pair cleans to one name
CsvColumnLabels ==
    { <<In.a>>, <<Lit.type>>, <<In.a, Lit.type>>, << <<"a", " ", "b">>, <<"a", "_", "b">> >> }

CsvDtypes == {"int64", "float64", "object"}

\* the cells a column of a dtype holds
CsvCells(dtype) ==
    CASE dtype = "int64" -> {PyInt(7)}
      [] dtype = "float64" -> {NaN, PyFloat(15, 1)}
      [] OTHER -> {NaN, PyStr(In.x)}

\* the frames read_csv returns, and its failure (no columns to parse)
CsvFrames ==
    { [ok |-> FALSE] } \cup
    UNION { UNION { { [ok |-> TRUE, columns |-> labels, dtypes |-> dtypes, rows |-> rows]
                      : rows \in SeqsOf({row \in [DOMAIN labels -> UNION {CsvCells(d) : d \in CsvDtypes}] :
                                            \A j \in DOMAIN labels : row[j] \in CsvCells(dtypes[j])},
                                        0, MaxRows) }
                  : dtypes \in [DOMAIN labels -> CsvDtypes] }
          : labels \in CsvColumnLabels }

\* the rows of the worksheets of the model (values_only cells, one width)
XlsxGrids ==
    { <<>>,
      << <<PyNone, PyNone>> >>,
      << <<PyStr(In.a), PyStr(In.b)>> >>,
      << <<PyStr(In.a), PyNone>>, <<PyInt(1), PyStr(In.x)>>, <<PyFloat(20, 1), PyNone>> >>,
      << <<PyNone, PyNone>>, <<PyStr(Lit.type), PyStr(Lit.sheet_name)>>,
         <<PyStr(In.x), PyStr(In.a)>>, <<PyNone, PyNone>> >>,
      << <<PyStr(In.a), PyStr(In.a)>>, <<PyInt(1), PyInt(2)>> >>,
      << <<PyStr(In.a), PyStr(In.a)>>, <<PyInt(1), PyNone>>, <<PyInt(1), PyInt(2)>> >>,
      << <<PyStr(In.a), PyStr(In.b)>>, <<PyStr(<<" ">>), PyNone>> >> }

\* stands for the rows of a worksheet that cannot be read
CorruptGrid == << <<[k |-> "corrupt"]>> >>

\* the name of the i-th sheet of a workbook
SheetName(i) == <<"S">> \o NatToStr(i)

\* the workbooks load_workbook returns, and its failure
Workbooks ==
    { [ok |-> FALSE] } \cup
    { [ok |-> TRUE,
       sheets |-> [i \in DOMAIN pick |->
                     IF pick[i] = CorruptGrid
                     THEN [name |-> SheetName(i), rows |-> <<>>, raises |-> TRUE]
                     ELSE [name |-> SheetName(i), rows |-> pick[i], raises |-> FALSE]]]
      : pick \in SeqsOf(XlsxGrids \cup {CorruptGrid}, 1, MaxSheets) }

XlsxFilename == <<"a", ".", "x", "l", "s", "x">>

\* the items of the JSON arrays of the model
JsonItems ==
    { JsonObject(<<>>),
      JsonObject(In.a :> PyInt(1)),
      JsonObject(In.b :> PyStr(In.x)),
      JsonObject((In.a :> PyNone) @@ (In.b :> PyFloat(25, 1))),
      JsonObject(In.a :> JsonObject(In.b :> PyInt(1))),
      JsonObject(In.a :> PyList(<<PyInt(1), PyInt(2)>>)),
      JsonObject(In.a :> PyList(<<>>)),
      PyInt(1) }

\* what a top-level object holds under a record key: nothing, a scalar, an
\* empty array, or the array of that key (a different one for each key)
KeyArray(key) ==
    CASE key = Lit.data -> PyList(<<JsonObject(In.a :> PyInt(1))>>)
      [] key = Lit.records -> PyList(<<JsonObject(In.b :> PyStr(In.x))>>)
      [] key = Lit.items -> PyList(<<PyInt(1)>>)
      [] OTHER -> PyList(<<JsonObject(In.a :> PyInt(1)), JsonObject(In.b :> PyStr(In.x))>>)

KeyChoices == {"absent", "scalar", "empty", "array"}

TopLevelObject(choice, extra) ==
    LET keys == {key \in Range(RecordKeys) : choice[key] # "absent"}
        held(key) == CASE choice[key] = "scalar" -> PyInt(1)
                       [] choice[key] = "empty" -> PyList(<<>>)
                       [] OTHER -> KeyArray(key)
    IN  JsonObject([key \in keys \cup (IF extra THEN {In.a} ELSE {}) |->
                      IF key = In.a THEN PyInt(1) ELSE held(key)])

\* the documents json.loads returns, and its failure
JsonDocuments ==
    { [ok |-> FALSE] } \cup
    { Ok(doc) : doc \in {PyNone, PyInt(1), PyStr(In.x)} } \cup
    { Ok(PyList(items)) : items \in SeqsOf(JsonItems, 0, MaxItems) } \cup
    { Ok(TopLevelObject(choice, extra)) :
        choice \in [Range(RecordKeys) -> KeyChoices], extra \in BOOLEAN }

JsonFilename == <<"a", ".", "j", "s", "o", "n">>

\* the texts of the cells of the model: the literals of the coercion rules,
\* their near misses, and the null markers
RawStrs ==
    { <<"4", "2">>,
      <<"3", ".", "1", "4">>,
      <<"t", "r", "u", "e">>,
      <<"N", "o">>,
      <<>>,
      <<" ", " ", "h", "e", "l", "l", "o", " ", " ">>,
      <<"0">>,
      <<"1">>,
      <<" ", "1", " ">>,
      <<"-", "7">>,
      <<"+", "5">>,
      <<"2", ".", "0">>,
      <<"1", "e", "5">>,
      <<"1", ".", "5", "e", "1">>,
      <<"2", ".", "5", "E", "-", "1">>,
      <<"i", "n", "f">>,
      <<"n", "a", "n">>,
      <<"N", "A">>,
      <<"N", "/", "A">>,
      <<"n", "u", "l", "l">>,
      <<"N", "U", "L", "L">>,
      <<"N", "o", "n", "e">>,
      <<" ", "N", "A">>,
      <<" ", " ">>,
      <<"\t">>,
      <<"T", "R", "U", "E">>,
      <<"Y", "e", "s">>,
      <<"y", "E", "s">>,
      <<"f", "a", "l", "s", "e">>,
      <<"F", "a", "l", "s", "e">>,
      <<"n", "o">>,
      <<"y", "e", "s">>,
      <<"N", "O">>,
      <<"a", "b", "c">>,
      <<"1", ".", "2", ".", "3">>,
      <<"-">>,
      <<".">>,
      <<"+">>,
      <<"1", "-", "2">>,
      <<"4", ".">>,
      <<".", "5">>,
      <<"-", "0", ".", "0">>,
      <<"0", "0", "7">>,
      <<"1", " ", "2">>,
      <<"x", "1">>,
      <<" ", "t", "r", "u", "e", "\n">>,
      <<"1", "0">>,
      <<"0", ".", "5", "0">>,
      <<"-", "3", ".", "0">>,
      <<"1", "2", "a">>,
      <<"a", ".", "b">>,
      <<"-", "-", "1">>,
      <<"1", "e">>,
      <<"e", "5">>,
      <<"1", ".">>,
      <<"+", "1", ".", "0">>,
      <<"0", ".", "0">>,
      <<"0", "0">>,
      <<"-", "0">>,
      <<" ", "0">>,
      <<"1", " ">>,
      <<"y", "e", "s", ".">>,
      <<"n", "o", "1">>,
      <<"t", "r", "u">>,
      <<"n">>,
      <<"y">> }

\* na_values of the read_csv call; keep_default_na is off
NaValues ==
    { <<>>, <<"N", "A">>, <<"N", "/", "A">>, <<"n", "u", "l", "l">>,
      <<"N", "U", "L", "L">>, <<"N", "o", "n", "e">> }

\* what read_csv holds in an object column for a field of the file
ReadCsvCell(text) == IF text \in NaValues THEN NaN ELSE PyStr(text)

\* the typed values iterrows hands to the tabular coercer beside str
TabularTyped ==
    { NaN, PyInt(7), PyFloat(20, 1), PyFloat(15, 1), PyBool(TRUE),
      [k |-> "npint", v |-> 7], [k |-> "npbool", v |-> FALSE],
      [k |-> "timestamp", v |-> <<"2", "0", "2", "4", "-", "0", "1", "-", "0", "2", "T", "0", "0", ":", "0", "0", ":", "0", "0">>] }

\* the values openpyxl hands to the workbook coercer
WorkbookCells ==
    { PyNone, PyInt(7), PyFloat(20, 1), PyFloat(15, 1), PyBool(TRUE),
      [k |-> "datetime", v |-> <<"2", "0", "2", "4", "-", "0", "1", "-", "0", "2", "T", "0", "0", ":", "0", "0", ":", "0", "0">>],
      [k |-> "time", v |-> <<"1", "2", ":", "3", "0", ":", "0", "0">>] } \cup
    { PyStr(text) : text \in RawStrs }

\* the contents of the uploads whose encoding and delimiter are detected
FileContents ==
    { <<59, 10, 9>>,
      <<97, 59, 98, 59, 99, 10, 49, 59, 50, 59, 51, 10, 52, 59, 53, 59, 54>>,
      <<>>,
      <<97>>,
      <<97, 44, 97, 10>>,
      <<97, 59, 97>>,
      <<97, 9, 97>>,
      <<97, 124, 97>>,
      <<97, 44, 97, 59, 97, 59, 97>>,
      <<97, 59, 97, 44, 97>>,
      <<195, 169, 44, 97>>,
      <<233, 59, 97>>,
      <<97, 129, 124, 97>>,
      <<195>>,
      <<233, 129, 169>>,
      <<97, 10>> }

\* what chardet.detect may return for a content: an encoding name or None,
\* with a confidence, or an error
ChardetResults ==
    { [raises |-> TRUE] } \cup
    { [raises |-> FALSE, encoding |-> encoding, confidence |-> confidence] :
        encoding \in {PyNone, PyStr(<<>>)} \cup
                     { PyStr(name) : name \in { <<"u", "t", "f", "-", "8">>,
                                                <<"a", "s", "c", "i", "i">>,
                                                <<"I", "S", "O", "-", "8", "8", "5", "9", "-", "1">>,
                                                <<"W", "i", "n", "d", "o", "w", "s", "-", "1", "2", "5", "2">>,
                                                <<"E", "U", "C", "-", "T", "W">> } },
        confidence \in {<<0, 0>>, <<5, 1>>, <<99, 2>>} }

\* the records of the flat RecordSets handed to the generator as they are
ExportRecords ==
    { <<>>,
      In.a :> PyInt(1),
      (In.a :> PyNone) @@ (In.b :> PyStr(In.x)),
      In.b :> PyBool(TRUE),
      (In.a :> PyFloat(15, 1)) @@ (Lit.type :> PyNone) }

\* the flat RecordSets: with a header list, with an empty one, with none
FlatRecordSets ==
    UNION { { [filename |-> JsonFilename, data |-> data],
              [filename |-> JsonFilename, data |-> data, headers |-> <<>>],
              [filename |-> JsonFilename, data |-> data, headers |-> <<In.a>>],
              [filename |-> JsonFilename, data |-> data, headers |-> <<In.b, In.a>>] }
          : data \in SeqsOf(ExportRecords, 0, MaxRows) }

\* the raw header names: every text of letters, digits, blanks, underscores,
\* hyphens and other punctuation up to MaxNameLen characters
RawNames == SeqsOf({"a", "B", "1", " ", "\t", "_", "-", "#"}, 0, MaxNameLen)

\* the output format names asked for
Formats == { Lit.json, Lit.jsonl, Lit.csv, <<"J", "S", "O", "N">>, <<"x", "m", "l">> }

\* how writing the output file ends
IoOutcomes == {"ok", "write_fails"}

\* a file left in the output directory by an earlier conversion
StalePath == <<"a">> \o Lit.converted \o Lit.json
StaleText == <<[tok |-> "stale"]>>
NoFiles == [path \in {} |-> <<>>]

-----------------------------------------------------------------------------
(* The conversion *)

\* no call made yet
Pending == [ok |-> FALSE, err |-> "pending", msg |-> ""]

\* the reader of a source kind, on the input src at clock reading t
Reader(source, t) ==
    CASE source.kind = "tabular" -> CsvProcessFile(source.input, source.filename, t)
      [] source.kind = "workbook" -> ExcelProcessFile(source.input, source.filename, t)
      [] OTHER -> JsonProcessFile(source.input, source.filename, t)

InitCommon ==
    /\ pc = "idle"
    /\ src = [kind |-> "none"]
    /\ rs = Pending
    /\ rs2 = Pending
    /\ req = <<>>
    /\ out = Pending
    /\ files \in {NoFiles, (StalePath :> StaleText)}
    /\ now = 0
    /\ preview = [max_rows |-> 0, result |-> Pending]
    /\ jobs = <<>>

\* the source is handed to its reader
Normalize(source) ==
    /\ src' = source
    /\ rs' = Reader(source, now)
    /\ pc' = IF rs'.ok THEN "normalized" ELSE "failed"

\* csv_processor.process_file(content, filename)
NormalizeTabular ==
    /\ pc = "idle"
    /\ \E up \in CsvUploads, frame \in CsvFrames :
          Normalize([kind |-> "tabular", filename |-> up.filename,
                     input |-> [encoding |-> up.encoding, delimiter |-> up.delimiter,
                                frame |-> frame]])
    /\ UNCHANGED <<rs2, req, out, files, now, preview, jobs>>

\* excel_processor.process_file(content, filename)
NormalizeWorkbook ==
    /\ pc = "idle"
    /\ \E workbook \in Workbooks :
          Normalize([kind |-> "workbook", filename |-> XlsxFilename, input |-> workbook])
    /\ UNCHANGED <<rs2, req, out, files, now, preview, jobs>>

\* json_processor.process_file(content, filename)
NormalizeJson ==
    /\ pc = "idle"
    /\ \E parsed \in JsonDocuments, empty_raises \in BOOLEAN :
          Normalize([kind |-> "json", filename |-> JsonFilename,
                     input |-> [encoding |-> Lit.utf8, parsed |-> parsed,
                                empty_raises |-> empty_raises]])
    /\ UNCHANGED <<rs2, req, out, files, now, preview, jobs>>

\* the same reader is run once more on the same bytes and file name
Renormalize ==
    /\ pc = "normalized"
    /\ rs2 = Pending
    /\ rs2' = Reader(src, now)
    /\ UNCHANGED <<pc, src, rs, req, out, files, now, preview, jobs>>

\* the preview route on the same workbook: excel_processor.get_preview(content,
\* filename, max_rows)
PreviewWorkbook ==
    /\ pc \in {"normalized", "failed"}
    /\ src.kind = "workbook"
    /\ preview.result = Pending
    /\ \E max_rows \in 1 .. MaxRows :
          preview' = [max_rows |-> max_rows,
                      result |-> ExcelGetPreview(src.input, src.filename, max_rows)]
    /\ UNCHANGED <<pc, src, rs, rs2, req, out, files, now, jobs>>

\* time passes
Tick ==
    /\ now < MaxClock
    /\ now' = now + 1
    /\ UNCHANGED <<pc, src, rs, rs2, req, out, files, preview, jobs>>

\* a generate_file that opens the output file before it has the content
WriteOutputOpenedFirst(content, output_path, io) ==
    IF ~content.ok \/ io = "write_fails"
    THEN /\ out' = Raised("ConversionError", "File generation failed")
         /\ files' = (output_path :> <<>>) @@ files
    ELSE /\ out' = Ok(output_path)
         /\ files' = (output_path :> content.val) @@ files

\* the rest of generate_file once the content is there: the file is opened
\* for writing, which truncates it, and written
WriteOutput(content, output_path, io) ==
    IF ~content.ok
    THEN /\ out' = Raised("ConversionError", "File generation failed")
         /\ files' = files
    ELSE IF io = "write_fails"
    THEN /\ out' = Raised("ConversionError", "File generation failed")
         /\ files' = (output_path :> <<>>) @@ files
    ELSE /\ out' = Ok(output_path)
         /\ files' = (output_path :> content.val) @@ files

\* JSONGenerator.generate_file(processed_data, output_format): the content is
\* generated before the output file is touched
GenerateFileTo(processed_data, output_format, io) ==
    WriteOutput(GenerateOutput(processed_data, output_format, now),
                OutputPath(processed_data, output_format), io)

GenerateFile ==
    /\ pc = "normalized"
    /\ \E output_format \in Formats, io \in IoOutcomes :
          /\ req' = output_format
          /\ GenerateFileTo(rs.val, output_format, io)
    /\ pc' = "done"
    /\ UNCHANGED <<src, rs, rs2, now, preview, jobs>>

\* one field of a delimited file goes through read_csv and the tabular
\* coercer; raw is the field as the file holds it
CoerceTabularText ==
    /\ pc = "idle"
    /\ \E text \in RawStrs :
          /\ src' = [kind |-> "cell", reader |-> "tabular", raw |-> PyStr(text),
                     input |-> ReadCsvCell(text)]
          /\ rs' = Ok(CsvProcessCellValue(ReadCsvCell(text)))
    /\ pc' = "coerced"
    /\ UNCHANGED <<rs2, req, out, files, now, preview, jobs>>

\* one typed value of a frame goes through the tabular coercer
CoerceTabularTyped ==
    /\ pc = "idle"
    /\ \E value \in TabularTyped :
          /\ src' = [kind |-> "cell", reader |-> "tabular", raw |-> value,
                     input |-> value]
          /\ rs' = Ok(CsvProcessCellValue(value))
    /\ pc' = "coerced"
    /\ UNCHANGED <<rs2, req, out, files, now, preview, jobs>>

\* one cell of a worksheet goes through the workbook coercer
CoerceWorkbook ==
    /\ pc = "idle"
    /\ \E cell_value \in WorkbookCells :
          /\ src' = [kind |-> "cell", reader |-> "workbook", raw |-> cell_value,
                     input |-> cell_value]
          /\ rs' = Ok(ExcelProcessCellValue(cell_value))
    /\ pc' = "coerced"
    /\ UNCHANGED <<rs2, req, out, files, now, preview, jobs>>

\* process_file up to the decoded text: the encoding is detected and the
\* content decoded
DecodeUpload ==
    /\ pc = "idle"
    /\ \E file_content \in FileContents : \E detected \in ChardetResults :
          /\ src' = [kind |-> "upload", content |-> file_content, detected |-> detected,
                     encoding |-> DetectEncoding(file_content, detected),
                     sniffed |-> [raises |-> "pending"]]
          /\ rs' = DecodeContent(file_content, DetectEncoding(file_content, detected))
    /\ pc' = IF rs'.ok THEN "decoded" ELSE "failed"
    /\ UNCHANGED <<rs2, req, out, files, now, preview, jobs>>

\* process_file goes on to detect the delimiter of the decoded text
SniffDelimiter ==
    /\ pc = "decoded"
    /\ \E sniffed \in SniffOutcomes(Take(rs.val, SampleSize)) :
          /\ src' = [src EXCEPT !.sniffed = sniffed]
          /\ rs2' = Ok(DetectDelimiter(rs.val, sniffed))
    /\ pc' = "sniffed"
    /\ UNCHANGED <<rs, req, out, files, now, preview, jobs>>

\* a caller hands a RecordSet of its own to the generator
LoadRecordSet ==
    /\ pc = "idle"
    /\ \E processed_data \in FlatRecordSets :
          /\ src' = [kind |-> "recordset"]
          /\ rs' = Ok(processed_data)
    /\ pc' = "normalized"
    /\ UNCHANGED <<rs2, req, out, files, now, preview, jobs>>

\* FileValidator._validate_tabular_content detects the delimiter of the same
\* upload; its own decoding tries utf-8 first, and the step is taken for the
\* contents that are valid UTF-8, where it yields the same text
ValidatorSniffDelimiter ==
    /\ pc = "decoded"
    /\ Utf8Decode(src.content, FALSE).ok
    /\ rs.val = Utf8Decode(src.content, FALSE).val
    /\ \E sniffed \in SniffOutcomes(Take(rs.val, SampleSize)) :
          /\ src' = [src EXCEPT !.sniffed = sniffed]
          /\ rs2' = ValidatorDetectDelimiter(rs.val, sniffed)
    /\ pc' = "validated"
    /\ UNCHANGED <<rs, req, out, files, now, preview, jobs>>

\* a header name is cleaned
CleanName ==
    /\ pc = "idle"
    /\ \E column_name \in RawNames :
          /\ src' = [kind |-> "name", raw |-> column_name]
          /\ rs' = Ok(CleanColumnName(column_name))
    /\ pc' = "cleaned"
    /\ UNCHANGED <<rs2, req, out, files, now, preview, jobs>>

\* the cleaned name is cleaned once more
CleanNameAgain ==
    /\ pc = "cleaned"
    /\ rs2' = Ok(CleanColumnName(rs.val))
    /\ pc' = "recleaned"
    /\ UNCHANGED <<src, rs, req, out, files, now, preview, jobs>>

-----------------------------------------------------------------------------
(* The conversion jobs *)

\* the number of convert requests of the model
MaxJobs == 2

\* the files of the upload folder: file_id |-> the extension it is stored
\* under and what its reader is handed
Uploaded ==
    (<<"f", "1">> :>
        [file_type |-> Lit.xlsx,
         input |-> [ok |-> TRUE,
                    sheets |-> << [name |-> SheetName(1),
                                   rows |-> << <<PyStr(In.a), PyStr(In.b)>>,
                                               <<PyInt(1), PyStr(In.x)>> >>,
                                   raises |-> FALSE] >>]]) @@
    (<<"f", "2">> :> [file_type |-> Lit.xlsx, input |-> [ok |-> FALSE]]) @@
    (<<"f", "3">> :>
        [file_type |-> Lit.csv,
         input |-> [encoding |-> Lit.utf8, delimiter |-> <<",">>,
                    frame |-> [ok |-> TRUE, columns |-> <<In.a>>, dtypes |-> <<"int64">>,
                               rows |-> << <<PyInt(7)>> >>]]]) @@
    (<<"f", "4">> :> [file_type |-> Lit.json, input |-> <<>>])

\* the formats a ConvertRequest can ask for (OutputFormat)
RequestFormats == {Lit.json, Lit.jsonl}

\* the job convert_file stores under a new job_id
NewJob(job_id, file_id, output_format, clock) ==
    [job_id |-> job_id,
     file_id |-> file_id,
     output_format |-> output_format,
     status |-> "pending",
     created_at |-> clock,
     file_path |-> file_id \o <<".">> \o Uploaded[file_id].file_type,
     file_type |-> Uploaded[file_id].file_type]

\* "Process file based on type"
JobProcessedData(job, clock) ==
    CASE job.file_type = Lit.xlsx ->
            ExcelProcessFile(Uploaded[job.file_id].input, job.file_path, clock)
      [] job.file_type = Lit.csv ->
            CsvProcessFile(Uploaded[job.file_id].input, job.file_path, clock)
      [] OTHER -> Raised("ConversionError", "Unsupported file type")

\* "Generate output": json_generator.generate_json(processed_data, output_format)
JobOutputContent(processed_data, output_format, clock) ==
    IF processed_data.ok THEN GenerateOutput(processed_data.val, output_format, clock)
    ELSE processed_data

\* output_filename
JobOutputFilename(job) == job.file_id \o Lit.converted \o job.output_format

\* a failure branch that records no completion time
JobFailedWithoutTime(job, error, clock) ==
    DictUpdate(job, [status |-> "failed", error |-> error])

\* the except clause of process_conversion
JobFailed(job, error, clock) ==
    DictUpdate(job, [status |-> "failed", error |-> error, completed_at |-> clock])

\* "Update job status"
JobCompleted(job, output_filename, clock) ==
    DictUpdate(job, [status |-> "completed",
                     completed_at |-> clock,
                     output_file |-> output_filename,
                     message |-> "Conversion completed successfully"])

\* process_conversion once it has the output content or the exception that
\* ended it: the output file is opened for writing, which creates or truncates
\* it, and written
SaveOutput(job_id, output_content, io) ==
    IF ~output_content.ok
    THEN /\ jobs' = [jobs EXCEPT ![job_id] = JobFailed(@, output_content.msg, now)]
         /\ files' = files
    ELSE IF io = "write_fails"
    THEN /\ jobs' = [jobs EXCEPT ![job_id] = JobFailed(@, "write failed", now)]
         /\ files' = (JobOutputFilename(jobs[job_id]) :> <<>>) @@ files
    ELSE /\ jobs' = [jobs EXCEPT ![job_id] = JobCompleted(@, JobOutputFilename(@), now)]
         /\ files' = (JobOutputFilename(jobs[job_id]) :> output_content.val) @@ files

\* POST /convert/{file_id}: the job is stored as pending under a job_id no
\* job holds yet (uuid4), and its conversion is left to a background task
ConvertFile ==
    /\ Len(jobs) < MaxJobs
    /\ \E file_id \in DOMAIN Uploaded, output_format \in RequestFormats :
          /\ jobs' = Append(jobs, NewJob(Len(jobs) + 1, file_id, output_format, now))
          /\ out' = Ok([job_id |-> Len(jobs) + 1,
                        file_id |-> file_id,
                        output_format |-> output_format,
                        status |-> "pending",
                        message |-> "Conversion job started"])
    /\ UNCHANGED <<pc, src, rs, rs2, req, files, now, preview>>

\* the background task starts: job["status"] = "processing"
BeginConversion ==
    /\ jobs # <<>>
    /\ \E job_id \in DOMAIN jobs :
          /\ jobs[job_id].status = "pending"
          /\ jobs' = [jobs EXCEPT ![job_id].status = "processing"]
    /\ UNCHANGED <<pc, src, rs, rs2, req, out, files, now, preview>>

\* the rest of process_conversion: the file is read, normalized, serialized
\* and saved, and the job ends completed or failed
FinishConversion ==
    /\ jobs # <<>>
    /\ \E job_id \in DOMAIN jobs, io \in IoOutcomes :
          /\ jobs[job_id].status = "processing"
          /\ SaveOutput(job_id,
                        JobOutputContent(JobProcessedData(jobs[job_id], now),
                                         jobs[job_id].output_format, now),
                        io)
    /\ UNCHANGED <<pc, src, rs, rs2, req, out, now, preview>>

\* GET /status/{job_id}
GetJobStatus ==
    /\ pc = "idle"
    /\ \E job_id \in 1 .. MaxJobs :
          out' = IF job_id \notin DOMAIN jobs
                 THEN Raised("HTTPException", "Job Not Found")
                 ELSE Ok([job_id |-> job_id,
                          status |-> jobs[job_id].status,
                          message |-> Get(jobs[job_id], "message", "None"),
                          error |-> Get(jobs[job_id], "error", "None"),
                          created_at |-> jobs[job_id].created_at,
                          completed_at |-> Get(jobs[job_id], "completed_at", "None")])
    /\ UNCHANGED <<pc, src, rs, rs2, req, files, now, preview, jobs>>

\* the converted file the download route finds for a file_id: json first
DownloadPath(file_id) ==
    IF file_id \o Lit.converted \o Lit.json \in DOMAIN files
    THEN Some(file_id \o Lit.converted \o Lit.json)
    ELSE IF file_id \o Lit.converted \o Lit.jsonl \in DOMAIN files
    THEN Some(file_id \o Lit.converted \o Lit.jsonl)
    ELSE Nothing

\* GET /download/{file_id}: the file found is sent as it is
DownloadConvertedFile ==
    /\ pc = "idle"
    /\ \E file_id \in DOMAIN Uploaded :
          out' = IF DownloadPath(file_id).some
                 THEN Ok([path |-> DownloadPath(file_id).val,
                          content |-> files[DownloadPath(file_id).val]])
                 ELSE Raised("HTTPException", "File Not Found")
    /\ UNCHANGED <<pc, src, rs, rs2, req, files, now, preview, jobs>>

NextTabular == NormalizeTabular \/ GenerateFile \/ Tick
NextWorkbook == NormalizeWorkbook \/ Renormalize \/ GenerateFile \/ Tick
NextJson == NormalizeJson \/ GenerateFile \/ Tick

NextCoercer == CoerceTabularText \/ CoerceTabularTyped \/ CoerceWorkbook

NextSniffer == DecodeUpload \/ SniffDelimiter \/ ValidatorSniffDelimiter

NextExport == LoadRecordSet \/ GenerateFile

NextNames == CleanName \/ CleanNameAgain

NextPreview == NormalizeWorkbook \/ PreviewWorkbook

NextJobs ==
    \/ ConvertFile
    \/ BeginConversion
    \/ FinishConversion
    \/ GetJobStatus
    \/ DownloadConvertedFile

SpecTabular == InitCommon /\ [][NextTabular]_vars
SpecWorkbook == InitCommon /\ [][NextWorkbook]_vars
SpecJson == InitCommon /\ [][NextJson]_vars
SpecCoercer == InitCommon /\ [][NextCoercer]_vars
SpecSniffer == InitCommon /\ [][NextSniffer]_vars
SpecExport == InitCommon /\ [][NextExport]_vars
SpecNames == InitCommon /\ [][NextNames]_vars
SpecPreview == InitCommon /\ [][NextPreview]_vars

\* the server starts with an empty registry and no converted file
InitJobs == InitCommon /\ files = NoFiles
SpecJobs == InitJobs /\ [][NextJobs]_vars

-----------------------------------------------------------------------------
(* The text read back *)

\* text.split("\n"): the lines of an output text
RECURSIVE SplitLines(_)
SplitLines(text) ==
    IF \A i \in DOMAIN text : text[i].tok # "lf" THEN <<text>>
    ELSE LET feed == CHOOSE i \in DOMAIN text :
                        text[i].tok = "lf" /\ \A j \in 1..(i - 1) : text[j].tok # "lf"
         IN  <<SubSeq(text, 1, feed - 1)>> \o SplitLines(SubSeq(text, feed + 1, Len(text)))

\* a line that json.loads parses to one object, and the object
IsJsonObjectLine(line) ==
    /\ Len(line) = 1
    /\ line[1].tok = "json"
    /\ line[1].indent = 0
    /\ line[1].v.k = "obj"

ParsedLine(line) == line[1].v.v

\* the conversion ended with an output file in the format asked for
Wrote(fmt) == pc = "done" /\ out.ok /\ StrLower(req) = fmt

\* the step in which generate_file is called with an output format
GenerateFileStep == pc = "normalized" /\ pc' = "done"

-----------------------------------------------------------------------------
(* Delimited text to jsonl *)

\* C1: for every delimited-text input the reader accepts, the jsonl text split
\* on line feeds is exactly 1 + row_count lines, each one JSON object; the
\* first is the metadata object, and line k + 1 holds the fields of the k-th
\* record, which are the coerced cells of the k-th row of the input
C1_JsonlRoundTrip ==
    Wrote(Lit.jsonl) =>
        LET lines == SplitLines(files[out.val])
            frame == src.input.frame
            data == rs.val.data
        IN  /\ rs.val.row_count = Len(frame.rows)
            /\ Len(data) = rs.val.row_count
            /\ Len(lines) = 1 + rs.val.row_count
            /\ \A n \in DOMAIN lines : IsJsonObjectLine(lines[n])
            /\ ParsedLine(lines[1])[Lit.type] = PyStr(Lit.metadata)
            /\ \A k \in DOMAIN data :
                  /\ DOMAIN data[k] \subseteq DOMAIN ParsedLine(lines[k + 1])
                  /\ \A h \in DOMAIN data[k] : ParsedLine(lines[k + 1])[h] = data[k][h]
                  /\ \A j \in DOMAIN frame.columns :
                        data[k][CleanColumnName(frame.columns[j])] =
                            CsvProcessCellValue(
                                IterRowValue(frame.dtypes, j, frame.rows[k][j]))

\* a jsonl file of two different records was written
C1_Witness ==
    /\ Wrote(Lit.jsonl)
    /\ rs.val.row_count = 2
    /\ rs.val.data[1] # rs.val.data[2]
    /\ Len(files[out.val]) = 5

\* C2: every jsonl line emitted for a record has type "data", whatever the
\* names of the record's own fields
C2_DataLinesTagged ==
    Wrote(Lit.jsonl) =>
        LET lines == SplitLines(files[out.val])
        IN  \A n \in 2..Len(lines) :
                /\ IsJsonObjectLine(lines[n])
                /\ ParsedLine(lines[n])[Lit.type] = PyStr(Lit.data)

-----------------------------------------------------------------------------
(* JSON documents *)

\* C3: a RecordSet the JSON reader returned, of n records, is serialized like
\* a tabular one: as jsonl, the metadata line and then n data lines in record
\* order; as json, an object whose top-level data array holds the n records
C3_JsonSerializedLikeTabular ==
    /\ Wrote(Lit.jsonl) =>
          LET lines == SplitLines(files[out.val])
          IN  /\ Len(lines) = 1 + rs.val.row_count
              /\ \A n \in DOMAIN lines : IsJsonObjectLine(lines[n])
              /\ ParsedLine(lines[1])[Lit.type] = PyStr(Lit.metadata)
              /\ \A k \in DOMAIN rs.val.data :
                    \A h \in DOMAIN rs.val.data[k] :
                        ParsedLine(lines[k + 1])[h] = rs.val.data[k][h]
    /\ Wrote(Lit.json) =>
          LET output == files[out.val][1].v.v
          IN  /\ Lit.data \in DOMAIN output
              /\ output[Lit.data] =
                    PyList([k \in DOMAIN rs.val.data |-> JsonObj(rs.val.data[k])])

\* the records the payload of the document read gives, before they are
\* sanitized
SourceRecords == NormalizePayload(src.input.parsed.val)

C8_EmptyPayloadFails ==
    pc # "idle" =>
        /\ (src.input.parsed.ok /\ SourceRecords = <<>>) => ~rs.ok
        /\ rs.ok => rs.val.row_count > 0 /\ rs.val.data # <<>>

\* the record keys in the order of their priority
PriorityKeys == <<Lit.data, Lit.records, Lit.items, Lit.rows>>

\* the data and headers the JSON reader gives for a document, or that it fails
RecordsOf(document) ==
    LET res == JsonProcessFile([src.input EXCEPT !.parsed = Ok(document)], src.filename, 0)
    IN  IF res.ok THEN <<res.val.headers, res.val.data>> ELSE <<>>

\* C9: of a top-level object, the array under the first of the keys data,
\* records, items, rows that holds an array is what is normalized; when none
\* of them holds an array the whole object is exactly one record
C9_RecordKeyPriority ==
    (pc # "idle" /\ src.input.parsed.ok /\ src.input.parsed.val.k = "dict") =>
        LET object == src.input.parsed.val.v
            arrays == {i \in DOMAIN PriorityKeys :
                          /\ PriorityKeys[i] \in DOMAIN object
                          /\ object[PriorityKeys[i]].k = "list"}
            first == CHOOSE i \in arrays : \A j \in arrays : i <= j
        IN  IF arrays # {}
            THEN RecordsOf(src.input.parsed.val) = RecordsOf(object[PriorityKeys[first]])
            ELSE /\ Len(SourceRecords) = 1
                 /\ SourceRecords[1] = object
                 /\ rs.ok => /\ rs.val.row_count = 1
                             /\ DOMAIN rs.val.data[1] = DOMAIN object

\* an object whose data key holds a scalar and whose records and rows keys
\* hold arrays was read: the records are those of the records array
C9_Witness ==
    /\ pc # "idle"
    /\ rs.ok
    /\ src.input.parsed.val.k = "dict"
    /\ Lit.data \in DOMAIN src.input.parsed.val.v
    /\ src.input.parsed.val.v[Lit.data] = PyInt(1)
    /\ Lit.records \in DOMAIN src.input.parsed.val.v
    /\ src.input.parsed.val.v[Lit.records].k = "list"
    /\ src.input.parsed.val.v[Lit.records].v # <<>>
    /\ Lit.rows \in DOMAIN src.input.parsed.val.v
    /\ src.input.parsed.val.v[Lit.rows].k = "list"
    /\ src.input.parsed.val.v[Lit.rows].v # <<>>
    /\ rs.val.headers = <<In.b>>
    /\ rs.val.row_count = 1

-----------------------------------------------------------------------------
(* Workbooks *)

\* C4: asking for csv of a workbook RecordSet always fails with the
\* conversion error that says CSV is not supported for it, and no text is
\* written, not even the export of one sheet
C4_WorkbookCsvRejected ==
    [][(GenerateFileStep /\ StrLower(req') = Lit.csv) =>
          /\ GenerateOutput(rs.val, req', now) =
                Raised("ConversionError",
                       "CSV output is not supported for multi-sheet Excel files")
          /\ ~out'.ok
          /\ out'.err = "ConversionError"
          /\ files' = files]_vars

\* csv was asked for of a workbook RecordSet of two sheets
C4_Witness ==
    /\ pc = "done"
    /\ req = Lit.csv
    /\ rs.val.sheet_count = 2
    /\ ~out.ok

\* C6: the reader run twice on the same bytes and file name returns the same
\* RecordSet
C6_SameRecordSetTwice == rs2.ok => rs2 = rs

\* a sheet the reader skips: it gives no sheet data
Skipped(worksheet) == ~ProcessSheet(worksheet).some

\* C10: the reader fails ("No valid data found") whenever every sheet of the
\* workbook is skipped, and never returns a RecordSet without sheets
C10_AllSheetsSkippedFails ==
    pc # "idle" =>
        /\ (/\ src.input.ok
            /\ \A i \in DOMAIN src.input.sheets : Skipped(src.input.sheets[i]))
              => rs = Raised("FileProcessingError",
                             "Excel processing failed: No valid data found in Excel file")
        /\ rs.ok => /\ rs.val.sheets # <<>>
                    /\ rs.val.sheet_count > 0

\* a workbook of two sheets, one unreadable and one with a header row only,
\* was refused
C10_Witness ==
    /\ pc = "failed"
    /\ src.input.ok
    /\ Len(src.input.sheets) = 2
    /\ src.input.sheets[1].raises
    /\ src.input.sheets[2].rows = << <<PyStr(In.a), PyStr(In.b)>> >>
    /\ rs.msg = "Excel processing failed: No valid data found in Excel file"

\* a workbook without its i-th sheet
WithoutSheet(workbook, i) ==
    [workbook EXCEPT !.sheets =
        [j \in 1..(Len(workbook.sheets) - 1) |->
            IF j < i THEN workbook.sheets[j] ELSE workbook.sheets[j + 1]]]

\* two results of the reader that differ at most in the time they were made
SameContent(a, b) ==
    /\ a.ok = b.ok
    /\ a.ok => /\ a.val.sheets = b.val.sheets
               /\ a.val.sheet_count = b.val.sheet_count
               /\ a.val.total_rows = b.val.total_rows
               /\ a.val.filename = b.val.filename
    /\ ~a.ok => a = b

\* C11: a sheet that cannot be processed never aborts the conversion: it is
\* absent from the result, and the result is the one of the workbook without
\* that sheet
C11_SheetFailureIsolated ==
    (pc # "idle" /\ src.input.ok) =>
        \A i \in DOMAIN src.input.sheets :
            src.input.sheets[i].raises =>
                /\ SameContent(rs, ExcelProcessFile(WithoutSheet(src.input, i),
                                                   src.filename, 0))
                /\ rs.ok => \A n \in DOMAIN rs.val.sheets :
                                rs.val.sheets[n][1] # src.input.sheets[i].name

\* a workbook whose first sheet cannot be processed and whose second sheet has
\* data was read: the result holds the second sheet alone
C11_Witness ==
    /\ pc = "normalized"
    /\ Len(src.input.sheets) = 2
    /\ src.input.sheets[1].raises
    /\ rs.val.sheet_count = 1
    /\ rs.val.sheets[1][1] = src.input.sheets[2].name
    /\ rs.val.total_rows = 2

\* C15: every value of every record of a RecordSet a reader returns is
\* null, a boolean, an integer, a float or a string, and a nested list or
\* object of the source comes out as its JSON-encoded string.
C15_OnlyScalarValues ==
    pc # "idle" =>
        /\ rs.ok => \A k \in DOMAIN rs.val.data : \A h \in DOMAIN rs.val.data[k] :
                        rs.val.data[k][h].k \in ScalarKinds
        /\ src.input.parsed.ok =>
              \A k \in DOMAIN SourceRecords : \A h \in DOMAIN SourceRecords[k] :
                  SourceRecords[k][h].k \in {"list", "dict"} =>
                      /\ rs.ok
                      /\ rs.val.data[k][h] = JsonStr(SourceRecords[k][h])

-----------------------------------------------------------------------------
(* Delimited text *)

\* C18: every record of a RecordSet the tabular reader returns has exactly
\* the headers as its keys, as many as column_count, with None for each
\* field the row had no cell for (read_csv pads a short row with NaN).
C18_RecordKeysAreHeaders ==
    (pc # "idle" /\ rs.ok) =>
        /\ Len(rs.val.data) = Len(src.input.frame.rows)
        /\ \A k \in DOMAIN rs.val.data :
              /\ DOMAIN rs.val.data[k] = Range(rs.val.headers)
              /\ Cardinality(DOMAIN rs.val.data[k]) = rs.val.column_count
              /\ \A j \in DOMAIN rs.val.headers :
                    src.input.frame.rows[k][j] = NaN =>
                        rs.val.data[k][rs.val.headers[j]] = PyNone

\* a row of two columns without a cell for the first was normalized
C18_Witness ==
    /\ pc # "idle"
    /\ rs.ok
    /\ rs.val.headers = <<In.a, Lit.type>>
    /\ rs.val.row_count >= 1
    /\ src.input.frame.rows[1] = <<NaN, PyStr(In.x)>>
    /\ rs.val.data[1] = (In.a :> PyNone) @@ (Lit.type :> PyStr(<<"x">>))
    /\ rs.val.column_count = 2

\* C19: when header cells clean to the same name the tabular reader still
\* succeeds, and headers holds one entry for each source column, the
\* duplicates as they are.
C19_DuplicateHeadersKept ==
    (pc # "idle" /\ src.input.frame.ok) =>
        LET columns == CsvColumns(src.input.frame)
        IN  (\E i, j \in DOMAIN columns : i # j /\ columns[i] = columns[j]) =>
                /\ rs.ok
                /\ rs.val.headers = columns
                /\ Len(rs.val.headers) = Len(src.input.frame.columns)

-----------------------------------------------------------------------------
(* CSV export *)

\* the header row the CSV export is to write for a RecordSet: its header
\* list, or without one the sorted union of the record keys, or value
CsvHeaderRow(processed_data) ==
    LET keys == UNION {DOMAIN processed_data.data[r] : r \in DOMAIN processed_data.data}
    IN  IF "headers" \in DOMAIN processed_data /\ processed_data.headers # <<>>
        THEN processed_data.headers
        ELSE IF keys # {} THEN SortedStrs(keys)
        ELSE <<Lit.value>>

\* C20: for a flat RecordSet of n records the csv text is one header row and
\* n data rows; the header row is the header list, or without one the sorted
\* union of the record keys, or the single column value; each data row holds
\* the header columns only, with an empty field for None and for a missing key.
C20_CsvRows ==
    (Wrote(Lit.csv) /\ src.kind = "recordset") =>
        LET text == files[out.val]
            records == rs.val.data
            headers == CsvHeaderRow(rs.val)
        IN  /\ Len(text) = 1 + Len(records)
            /\ text[1] = CsvRow([i \in DOMAIN headers |-> PyStr(headers[i])])
            /\ \A r \in DOMAIN records :
                  /\ text[r + 1].tok = "row"
                  /\ DOMAIN text[r + 1].v = DOMAIN headers
                  /\ \A i \in DOMAIN headers :
                        text[r + 1].v[i] =
                            IF headers[i] \in DOMAIN records[r]
                               /\ records[r][headers[i]] # PyNone
                            THEN records[r][headers[i]]
                            ELSE PyStr(<<>>)

\* a RecordSet with the header list b, a and a record {a: None, b: " x"}
\* followed by one with the key type outside the headers was written as csv
C20_Witness ==
    /\ Wrote(Lit.csv)
    /\ src.kind = "recordset"
    /\ "headers" \in DOMAIN rs.val
    /\ rs.val.headers = <<In.b, In.a>>
    /\ rs.val.data = << (In.a :> PyNone) @@ (In.b :> PyStr(In.x)),
                        (In.a :> PyFloat(15, 1)) @@ (Lit.type :> PyNone) >>
    /\ files[out.val] = << CsvRow(<<PyStr(In.b), PyStr(In.a)>>),
                           CsvRow(<<PyStr(In.x), PyStr(<<>>)>>),
                           CsvRow(<<PyStr(<<>>), PyFloat(15, 1)>>) >>

-----------------------------------------------------------------------------
(* Encoding and delimiter detection *)

\* C16: for every content the encoding detected is a name, and the decode
\* step yields text: the strict decoding with that name when it succeeds,
\* the lossy UTF-8 decoding when the name is unknown or the bytes do not
\* decode; content that is not valid UTF-8 makes nothing fail.
C16_DecodeAlwaysYieldsText ==
    (pc # "idle" /\ src.kind = "upload") =>
        /\ src.encoding # <<>>
        /\ rs.ok
        /\ rs.val = IF Decode(src.content, src.encoding).ok
                    THEN Decode(src.content, src.encoding).val
                    ELSE Utf8Decode(src.content, TRUE).val
        /\ pc # "failed"

\* the bytes E9 3B 61 are not UTF-8; chardet said UTF-8 with confidence, the
\* strict decoding failed and the lossy one gave ";a"
C16_Witness ==
    /\ pc = "decoded"
    /\ src.content = <<233, 59, 97>>
    /\ ~Utf8Decode(src.content, FALSE).ok
    /\ src.encoding = Lit.utf8
    /\ rs.ok
    /\ rs.val = <<";", "a">>

\* C17: for every text, the empty one included, the delimiter detected is one
\* of comma, semicolon, tab and pipe, and it is the comma when the sample
\* holds none of the four.
C17_DelimiterAlwaysCandidate ==
    pc = "sniffed" =>
        /\ rs2.ok
        /\ rs2.val \in {",", ";", "\t", "|"}
        /\ Range(Take(rs.val, SampleSize)) \cap {",", ";", "\t", "|"} = {} => rs2.val = ","

\* the empty text went through the detection, sniff() raised csv.Error and the
\* count of the candidates gave the comma
C17_Witness ==
    /\ pc = "sniffed"
    /\ rs.val = <<>>
    /\ src.sniffed.raises = "csv.Error"
    /\ rs2.val = ","

-----------------------------------------------------------------------------
(* Cell coercion *)

\* a cell went through the coercer of the given reader
Coerced(reader) == pc = "coerced" /\ src.reader = reader

\* the number a trimmed text parses to: int() when it holds no ".", float()
\* otherwise
ParsesAsNumber(t) == IF StrContains(t, ".") THEN FloatLiteralOk(t) ELSE IntLiteralOk(t)
ParsedNumber(t) ==
    IF StrContains(t, ".") THEN FloatLiteralValue(t) ELSE <<IntLiteralValue(t), 0>>

\* C12: on the tabular path the coercer trims a string and then, in this
\* order, gives Null for the empty text, Integer or Float for a text that
\* parses as a number (Integer when it holds no "." or its fractional part is
\* zero), Boolean for true/yes and false/no in any letter case, and the
\* trimmed text otherwise; "42", "3.14", "true", "No", "" (a blank field),
\* "  hello  ", "0" and "1" give Integer 42, Float 3.14, Boolean true,
\* Boolean false, Null, String "hello", Integer 0 and Integer 1.
C12_TabularStringCoercion ==
    Coerced("tabular") =>
        /\ src.input.k = "str" =>
              LET t == StrStrip(src.input.v)
                  low == StrLower(t)
                  n == ParsedNumber(t)
              IN  rs.val =
                    IF t = <<>> THEN PyNone
                    ELSE IF ParsesAsNumber(t)
                    THEN IF FloatIsInteger(n) THEN PyInt(FloatToInt(n))
                         ELSE PyFloat(n[1], n[2])
                    ELSE IF low \in {Lit.true, Lit.yes} THEN PyBool(TRUE)
                    ELSE IF low \in {Lit.false, Lit.no} THEN PyBool(FALSE)
                    ELSE PyStr(t)
        /\ src.raw = PyStr(<<"4", "2">>) => rs.val = PyInt(42)
        /\ src.raw = PyStr(<<"3", ".", "1", "4">>) => rs.val = PyFloat(314, 2)
        /\ src.raw = PyStr(<<"t", "r", "u", "e">>) => rs.val = PyBool(TRUE)
        /\ src.raw = PyStr(<<"N", "o">>) => rs.val = PyBool(FALSE)
        /\ src.raw = PyStr(<<>>) => rs.val = PyNone
        /\ src.raw = PyStr(<<" ", " ">>) => rs.val = PyNone
        /\ src.raw = PyStr(<<" ", " ", "h", "e", "l", "l", "o", " ", " ">>) =>
              rs.val = PyStr(<<"h", "e", "l", "l", "o">>)
        /\ src.raw = PyStr(<<"0">>) => rs.val = PyInt(0)
        /\ src.raw = PyStr(<<"1">>) => rs.val = PyInt(1)

\* the tabular coercer took the text "1" and gave the integer
C12_Witness ==
    /\ Coerced("tabular")
    /\ src.input = PyStr(<<"1">>)
    /\ rs.val = PyInt(1)

\* C13: on the workbook path the coercer gives Boolean true for the string
\* cell "1" and Boolean false for "0" (after trimming), as it does for
\* true/yes and false/no in any letter case.
C13_WorkbookOneZeroBoolean ==
    (Coerced("workbook") /\ src.input.k = "str") =>
        LET low == StrLower(StrStrip(src.input.v))
        IN  /\ low \in {Lit.one, Lit.true, Lit.yes} => rs.val = PyBool(TRUE)
            /\ low \in {Lit.zero, Lit.false, Lit.no} => rs.val = PyBool(FALSE)

\* the null sentinels of the readers
NullSentinels == NaValues \ {<<>>}

\* the raw values that stand for "no value": the source's null marker, a text
\* that is empty after trimming, and the sentinels
NullLike(raw) ==
    \/ IsNaScalar(raw)
    \/ raw.k = "str" /\ (StrStrip(raw.v) = <<>> \/ raw.v \in NullSentinels)

\* C14: on both paths every null-like raw value becomes Null.
C14_NullLikeBecomesNull ==
    pc = "coerced" => (NullLike(src.raw) => rs.val = PyNone)

-----------------------------------------------------------------------------
(* Output formats *)

\* C5: a format name that, in lower case, is not json, jsonl or csv makes the
\* serializer fail, and generate_file then creates or modifies no file
C5_UnknownFormatWritesNothing ==
    [][(GenerateFileStep /\ StrLower(req') \notin KnownFormats) =>
          /\ ~GenerateOutput(rs.val, req', now).ok
          /\ ~out'.ok
          /\ files' = files]_vars

\* the format xml was asked for and refused
C5_Witness ==
    /\ pc = "done"
    /\ req = <<"x", "m", "l">>
    /\ ~out.ok
    /\ out.err = "ConversionError"

\* C5 as it is stated: a format name that is not json, jsonl or csv makes the
\* serializer fail and no file is created or modified
C5_AsStated ==
    [][(GenerateFileStep /\ req' \notin KnownFormats) =>
          /\ ~GenerateOutput(rs.val, req', now).ok
          /\ ~out'.ok
          /\ files' = files]_vars

-----------------------------------------------------------------------------
(* Workbooks to jsonl, sheets and records *)

\* the number of lines in front of the lines of the i-th sheet
LinesBefore(sheets_data, i) ==
    1 + SumSeq([j \in 1..(i - 1) |-> 1 + Len(sheets_data[j][2].data)])

\* C23: the jsonl text of a workbook RecordSet of n sheets is 1 + n + (number
\* of records) lines: the metadata line, then for each sheet in order its
\* sheet_metadata line followed at once by its records in order.
C23_SheetLinesInOrder ==
    (Wrote(Lit.jsonl) /\ rs.ok) =>
        LET lines == SplitLines(files[out.val])
            sheets_data == rs.val.sheets
        IN  /\ Len(lines) = LinesBefore(sheets_data, Len(sheets_data) + 1)
            /\ Len(lines) = 1 + Len(sheets_data) + rs.val.total_rows
            /\ \A n \in DOMAIN lines : IsJsonObjectLine(lines[n])
            /\ ParsedLine(lines[1])[Lit.type] = PyStr(Lit.metadata)
            /\ \A i \in DOMAIN sheets_data :
                  LET at == LinesBefore(sheets_data, i) + 1
                      sheet_name == sheets_data[i][1]
                      data == sheets_data[i][2].data
                  IN  /\ ParsedLine(lines[at])[Lit.type] = PyStr(Lit.sheet_metadata)
                      /\ ParsedLine(lines[at])[Lit.sheet_name] = PyStr(sheet_name)
                      /\ \A k \in DOMAIN data :
                            LET line == ParsedLine(lines[at + k])
                            IN  /\ DOMAIN line = DOMAIN data[k] \cup {Lit.type, Lit.sheet_name}
                                /\ \A h \in DOMAIN data[k] : line[h] = data[k][h]
                                /\ Lit.sheet_name \notin DOMAIN data[k] =>
                                      line[Lit.sheet_name] = PyStr(sheet_name)
                                /\ Lit.type \notin DOMAIN data[k] =>
                                      line[Lit.type] = PyStr(Lit.data)

\* a workbook of two sheets with records was written as jsonl
C23_Witness ==
    /\ Wrote(Lit.jsonl)
    /\ rs.ok
    /\ Len(rs.val.sheets) = 2
    /\ Len(rs.val.sheets[1][2].data) = 2
    /\ Len(rs.val.sheets[2][2].data) = 1
    /\ Len(SplitLines(files[out.val])) = 6

\* C24: a sheet is in the output map, in source order, exactly when it has a
\* row that is not fully empty; its headers are the first such row, with
\* Column_i for the empty cell at position i.
C24_SheetsWithRowsAppear ==
    (pc # "idle" /\ src.input.ok) =>
        LET kept == SelectSeq(src.input.sheets,
                              LAMBDA worksheet : NonEmptyRows(worksheet.rows) # <<>>)
        IN  /\ rs.ok <=> kept # <<>>
            /\ rs.ok =>
                  /\ Len(rs.val.sheets) = Len(kept)
                  /\ \A i \in DOMAIN kept :
                        /\ rs.val.sheets[i][1] = kept[i].name
                        /\ rs.val.sheets[i][2].headers =
                              SheetHeaders(NonEmptyRows(kept[i].rows)[1])

\* C25: every record of every sheet of a RecordSet the workbook reader
\* returns has a value that is not None, and a sheet has no more records than
\* the source has data rows with a coerced value that is not None.
C25_NoBlankRecords ==
    (pc # "idle" /\ rs.ok) =>
        \A i \in DOMAIN rs.val.sheets :
            LET sheet_data == rs.val.sheets[i][2]
                worksheet == CHOOSE w \in Range(src.input.sheets) : w.name = rs.val.sheets[i][1]
                rows == Tail(NonEmptyRows(worksheet.rows))
            IN  /\ \A k \in DOMAIN sheet_data.data :
                      \E h \in DOMAIN sheet_data.data[k] : sheet_data.data[k][h] # PyNone
                /\ sheet_data.row_count = Len(sheet_data.data)
                /\ Len(sheet_data.data) <=
                      Cardinality({r \in DOMAIN rows :
                          \E c \in DOMAIN rows[r] : ExcelProcessCellValue(rows[r][c]) # PyNone})

\* a sheet with a fully empty row after its header row and after its data
\* row was read: one record
C25_Witness ==
    /\ pc # "idle"
    /\ rs.ok
    /\ src.input.sheets[1].rows =
          << <<PyNone, PyNone>>, <<PyStr(Lit.type), PyStr(Lit.sheet_name)>>,
             <<PyStr(In.x), PyStr(In.a)>>, <<PyNone, PyNone>> >>
    /\ Len(rs.val.sheets[1][2].data) = 1

-----------------------------------------------------------------------------
(* JSON leaves *)

\* C26: every str or number leaf of a record the JSON reader returns is what
\* the cell coercer gives for the raw leaf: a str is trimmed and becomes None,
\* a number or a boolean where it reads as one, and an integral float becomes
\* an int.
C26_LeavesCoerced ==
    (pc # "idle" /\ rs.ok) =>
        \A k \in DOMAIN SourceRecords : \A h \in DOMAIN SourceRecords[k] :
            SourceRecords[k][h].k \in {"str", "int", "float"} =>
                rs.val.data[k][h] = CsvProcessCellValue(SourceRecords[k][h])

-----------------------------------------------------------------------------
(* Encoding fallback and delimiter counting *)

\* whether content decodes strictly as UTF-16: whole 16-bit units (little
\* endian unless a byte order mark says otherwise), none of them a surrogate
Utf16Decodes(content) ==
    LET big == Len(content) >= 2 /\ content[1] = 254 /\ content[2] = 255
        high(u) == IF big THEN content[2 * u - 1] ELSE content[2 * u]
    IN  /\ Len(content) % 2 = 0
        /\ \A u \in 1..(Len(content) \div 2) : high(u) < 216 \/ high(u) > 223

\* the first encoding of the list utf-8, utf-8 with BOM, utf-16, latin-1 that
\* decodes the content strictly
FirstOfPriorityList(content) ==
    IF Utf8Decode(content, FALSE).ok THEN Lit.utf8
    ELSE IF Utf16Decodes(content) THEN <<"u", "t", "f", "-", "1", "6">>
    ELSE Lit.latin1

\* C27: when chardet reports no encoding or a confidence below 0.7 the
\* encoding detected is the first of utf-8, utf-8 with BOM, utf-16, latin-1
\* that decodes the whole content strictly; otherwise it is chardet's.
C27_FallbackPriorityList ==
    (pc # "idle" /\ src.kind = "upload" /\ ~src.detected.raises) =>
        IF \/ src.detected.encoding.k = "null"
           \/ src.detected.encoding.v = <<>>
           \/ src.detected.confidence[1] * 10 < 7 * Pow10(src.detected.confidence[2])
        THEN src.encoding = FirstOfPriorityList(src.content)
        ELSE src.encoding = src.detected.encoding.v

\* C28: when sniff() does not converge the delimiter detected is the
\* candidate with the highest count in the first SampleSize characters, the
\* earlier one in the order comma, semicolon, tab, pipe on a tie; for the text
\* "a;b;c\n1;2;3\n4;5;6" it is the semicolon.
C28_HighestCountEarliestOnTie ==
    (pc \in {"sniffed", "validated"} /\ src.sniffed.raises # "Exception") =>
        LET sample == Take(rs.val, SampleSize)
            order == <<",", ";", "\t", "|">>
            count(i) == Cardinality({n \in DOMAIN sample : sample[n] = order[i]})
        IN  /\ rs2.ok
            /\ src.sniffed.raises = "csv.Error" =>
                  \E i \in DOMAIN order :
                      /\ rs2.val = order[i]
                      /\ \A j \in DOMAIN order : count(j) <= count(i)
                      /\ \A j \in DOMAIN order : count(j) = count(i) => i <= j
            /\ rs.val = <<"a", ";", "b", ";", "c", "\n", "1", ";", "2", ";", "3", "\n",
                          "4", ";", "5", ";", "6">> => rs2.val = ";"

-----------------------------------------------------------------------------
(* Field names *)

\* C29: the cleaned name of every raw header name is not empty, holds only
\* letters, digits, "_" and "-", no whitespace and no two underscores in a
\* row, and has no underscore at either end; cleaning it again returns it.
C29_CleanNameCanonical ==
    /\ pc \in {"cleaned", "recleaned"} =>
          LET name == rs.val
          IN  /\ name # <<>>
              /\ \A i \in DOMAIN name : IsAlnum(name[i]) \/ name[i] \in {"_", "-"}
              /\ \A i \in DOMAIN name : ~IsSpace(name[i])
              /\ \A i \in 1..(Len(name) - 1) : ~(name[i] = "_" /\ name[i + 1] = "_")
              /\ name[1] # "_"
              /\ name[Len(name)] # "_"
    /\ pc = "recleaned" => rs2.val = rs.val

\* the name "_a #" was cleaned to "a" and cleaned again
C29_Witness ==
    /\ pc = "recleaned"
    /\ src.raw = <<"_", "a", " ", "#">>
    /\ rs.val = <<"a">>
    /\ rs2.val = <<"a">>


-----------------------------------------------------------------------------
(* The preview against the RecordSet *)

\* the sheets of the RecordSet that carry a name
SheetsNamed(sheet_name) ==
    SelectSeq(rs.val.sheets, LAMBDA item : item[1] = sheet_name)

\* C21: the preview of a workbook is a truncation of the RecordSet of the
\* same workbook: it shows at most 3 sheets, every sheet it shows is a sheet
\* of the RecordSet with the same headers, and its sample records are the
\* first max_rows records of that sheet in the RecordSet.
C21_PreviewIsTruncation ==
    (rs.ok /\ preview.result.ok) =>
        /\ Len(preview.result.val.sheets) <= 3
        /\ \A i \in DOMAIN preview.result.val.sheets :
              LET shown == preview.result.val.sheets[i]
                  found == SheetsNamed(shown[1])
              IN  /\ found # <<>>
                  /\ shown[2].headers = found[1][2].headers
                  /\ shown[2].preview_data = Take(found[1][2].data, preview.max_rows)

-----------------------------------------------------------------------------
(* Conversion jobs and their output files *)

\* the text a completed job saved: what the reader and the serializer give
\* for its file at the time it completed
JobOutputText(job) ==
    JobOutputContent(JobProcessedData(job, job.completed_at),
                     job.output_format, job.completed_at)

\* C22: output is all-or-nothing: every converted file of the upload
\* folder was saved by a conversion that completed, and holds the complete
\* text of that conversion; a conversion that failed leaves no file.
C22_OutputAllOrNothing ==
    \A path \in DOMAIN files :
        \E job_id \in DOMAIN jobs :
            /\ jobs[job_id].status = "completed"
            /\ JobOutputFilename(jobs[job_id]) = path
            /\ files[path] = JobOutputText(jobs[job_id]).val

\* the two states a job ends in
TerminalStatus == {"completed", "failed"}

\* what every job of the registry holds
JobsWellFormed ==
    \A job_id \in DOMAIN jobs :
        /\ jobs[job_id].status \in {"pending", "processing"} \cup TerminalStatus
        /\ ("completed_at" \in DOMAIN jobs[job_id]) <=> (jobs[job_id].status \in TerminalStatus)
        /\ jobs[job_id].status = "completed" => "output_file" \in DOMAIN jobs[job_id]
        /\ jobs[job_id].status = "failed" => "error" \in DOMAIN jobs[job_id]

\* how the jobs of the registry move in one step
JobsMove ==
    \A job_id \in DOMAIN jobs :
        /\ job_id \in DOMAIN jobs'
        /\ jobs[job_id].status \in TerminalStatus => jobs'[job_id] = jobs[job_id]
        /\ jobs'[job_id].status # jobs[job_id].status =>
              \/ jobs[job_id].status = "pending" /\ jobs'[job_id].status = "processing"
              \/ jobs[job_id].status = "processing" /\ jobs'[job_id].status \in TerminalStatus

\* C30: under every interleaving of convert requests, background conversions
\* and status queries, a job's status is pending, processing, completed or
\* failed; it moves only from pending to processing and from processing to
\* completed or failed; a completed or failed job never changes again;
\* completed_at is set exactly in the two terminal states; a completed job has
\* its output_file and a failed job its error.
C30_JobLifecycle == []JobsWellFormed /\ [][JobsMove]_vars

\* a status query answered for a completed job while another job has failed
C30_Witness ==
    /\ \E job_id \in DOMAIN jobs : jobs[job_id].status = "failed"
    /\ \E job_id \in DOMAIN jobs :
          /\ jobs[job_id].status = "completed"
          /\ out = Ok([job_id |-> job_id,
                       status |-> "completed",
                       message |-> jobs[job_id].message,
                       error |-> "None",
                       created_at |-> jobs[job_id].created_at,
                       completed_at |-> jobs[job_id].completed_at])
=============================================================================
